---- MODULE Spec2Model ----
(***************************************************************************)
(* Temporal Semantic Weaving: the resonance field, temporal decay and      *)
(* consolidation, the temporal braid, the entanglement graph, the          *)
(* holographic memory and the crystallizer, as driven by                   *)
(* EnhancedTSW.add_experience (main.py) and by direct calls to the         *)
(* components.                                                             *)
(*                                                                         *)
(* Real numbers are fixed-point integers: a value x of the program is the  *)
(* integer x * SCALE, and products and quotients truncate toward zero.     *)
(* The field tensor is kept at the coarser TSCALE so that the squared      *)
(* magnitude of an entry stays inside TLC's integers.  A text is the       *)
(* sequence of its lower-cased words; a wave id (a uuid4 in the program)   *)
(* is the wave's creation index.                                           *)
(***************************************************************************)
EXTENDS Integers, Sequences, FiniteSets, TLC

VARIABLES
    allWaves,           \* every Wave object ever created, indexed by id
    waves,              \* ResonanceField.waves: the live list, as ids in order
    time,               \* ResonanceField.time
    field_tensor,       \* ResonanceField.field_tensor
    raw_tensor,         \* the tensor of the last _update_field_tensor before clipping
    last_resonances,    \* what the last ResonanceField.add_experience returned
    graph,              \* QuantumEntanglement.graph
    braids,             \* TemporalBraid.braids
    id_to_braid,        \* TemporalBraid._id_to_braid
    causal_loops,       \* TemporalBraid.causal_loops
    occurrence_counts,  \* TemporalBraid._occurrence_counts
    hologram,           \* HolographicMemory.hologram
    hologram_count,     \* HolographicMemory._count
    crystals,           \* SemanticCrystallizer.crystals
    dimensions,         \* ResonanceField.dimensions
    input,              \* the arguments of the last call of a query or pure function
    outcome,            \* what that call returned or raised
    attached,           \* TRUE iff TemporalBraid.field is a field (not None)
    calls,              \* the number of operations called so far
    corpus              \* the texts a session draws from, its length and its calls

vars == <<allWaves, waves, time, field_tensor, raw_tensor, last_resonances,
          graph, braids, id_to_braid, occurrence_counts, hologram, hologram_count,
          crystals, dimensions, input, outcome, attached, causal_loops, calls, corpus>>

-----------------------------------------------------------------------------
(* Bounds of the model *)

Dim == 2                \* field dimension (384 in the program)
HoloSize == 2           \* HolographicMemory.size (128 in the program)
DepthShort == 3         \* ingestions of a session over all texts
DepthGrow == 11         \* ingestions of a session of keyword-rich texts
DepthFade == 13         \* ingestions of a session of keyword-free texts
DepthMixed == 5         \* ingestions of a session of two dissimilar texts
DepthComp == 3          \* ingestions when the components are driven directly
DepthQuery == 2         \* ingestions before the field is queried
DepthHolo == 2          \* waves beside the hologram
MaxStored == 2          \* waves written to the hologram before it is read
MaxDelta == 100000      \* elapsed times from -MaxDelta to MaxDelta
MaxCount == 100         \* keywords, partners and resonances of a decay call
MaxEnergyWaves == 2     \* waves of a field whose energy is taken
MaxCalls == 5           \* operations when the components are driven directly
MaxWeaves == 2          \* weave calls for one wave
DepthCrystal == 4       \* ingestions before the crystallizer scans the field
MaxCrystalCalls == 6    \* operations of that session
DepthSession == 3       \* ingestions of a session with questions
DepthGraph == 4         \* ingestions before the entanglement graph is walked
MaxGraphCalls == 7      \* ingestions and entanglements of that session
MaxHops == 3            \* the largest depth asked of neighborhood
DepthBraid == 3         \* waves beside the braid
MaxBraidCalls == 7      \* operations on the braid and its field
DepthFading == 2        \* waves beside the braid when a wave fades away
MaxFadingCalls == 22    \* operations on the braid and its fading field
MaxAmp == 50000         \* amplitudes are followed up to 50.0

-----------------------------------------------------------------------------
(* Fixed-point arithmetic *)

\* three decimal digits for scalars, two for the entries of the field tensor
SCALE == 1000
TSCALE == 100

Abs(x) == IF x < 0 THEN -x ELSE x
Min(a, b) == IF a < b THEN a ELSE b
Max(a, b) == IF a > b THEN a ELSE b

TruncDiv(a, b) == IF a >= 0 THEN a \div b ELSE -((-a) \div b)

\* the largest product the model forms; a product beyond it saturates, and
\* the actions are disabled before a saturated value enters a state
MaxProduct == 2000000000

Mul(a, b) ==
    IF b # 0 /\ Abs(a) > MaxProduct \div Abs(b)
    THEN (IF (a < 0) = (b < 0) THEN 1 ELSE -1) * (MaxProduct \div SCALE)
    ELSE TruncDiv(a * b, SCALE)

\* Newton's iteration for the square root, from a start x above the root
RECURSIVE SqrtNewton(_, _)
SqrtNewton(n, x) ==
    LET y == (x + n \div x) \div 2
    IN  IF y >= x THEN x ELSE SqrtNewton(n, y)

\* floor of the square root, for 0 <= n < 2^31
ISqrt(n) ==
    IF n = 0 THEN 0
    ELSE SqrtNewton(n, IF n < 100 THEN 10
                       ELSE IF n < 10000 THEN 100
                       ELSE IF n < 1000000 THEN 1000
                       ELSE IF n < 100000000 THEN 10000
                       ELSE 46340)

\* np.exp(-x): its Taylor series for 0 <= x <= 0.3, products of it up to 7.0,
\* 0 beyond; for x < 0 the reciprocal, which saturates where np.exp grows
\* beyond the numbers of the model (and overflows to inf)
RECURSIVE ExpNeg(_)
ExpNeg(x) ==
    IF x < 0 THEN (IF ExpNeg(-x) = 0 THEN MaxProduct \div SCALE
                   ELSE TruncDiv(SCALE * SCALE, ExpNeg(-x)))
    ELSE IF x > 7000 THEN 0
    ELSE IF x > 300 THEN Mul(ExpNeg(300), ExpNeg(x - 300))
    ELSE LET x2 == Mul(x, x)
             x3 == Mul(x2, x)
         IN  SCALE - x + x2 \div 2 - x3 \div 6

\* cos and sin of a phase in [0, 1.5], by their Taylor series
CosFP(x) ==
    LET x2 == Mul(x, x)
        x4 == Mul(x2, x2)
        x6 == Mul(x4, x2)
    IN  SCALE - x2 \div 2 + x4 \div 24 - x6 \div 720

SinFP(x) ==
    LET x2 == Mul(x, x)
        x3 == Mul(x2, x)
        x5 == Mul(x3, x2)
        x7 == Mul(x5, x2)
    IN  x - x3 \div 6 + x5 \div 120 - x7 \div 5040

-----------------------------------------------------------------------------
(* Vectors *)

RECURSIVE SumTo(_, _)
SumTo(f, n) == IF n = 0 THEN 0 ELSE f[n] + SumTo(f, n - 1)

Dot(a, b) == SumTo([i \in 1..Min(Len(a), Len(b)) |-> a[i] * b[i]], Min(Len(a), Len(b)))

\* np.linalg.norm
Norm(v) == ISqrt(Dot(v, v))

C(re, im) == [re |-> re, im |-> im]

\* np.linalg.norm of a complex vector
CNorm(v) == ISqrt(SumTo([i \in 1..Len(v) |-> v[i].re * v[i].re + v[i].im * v[i].im], Len(v)))

\* a complex vector divided by its norm n > 0
CNormalized(v, n) ==
    [i \in 1..Len(v) |-> C(TruncDiv(v[i].re * SCALE, n), TruncDiv(v[i].im * SCALE, n))]

\* "np.linalg.norm(v) or 1.0"
NormOr1(v) == IF Norm(v) = 0 THEN SCALE ELSE Norm(v)

ZeroVector(n) == [i \in 1..n |-> 0]

\* the entries of a list
IdsOf(seq) == {seq[i] : i \in 1..Len(seq)}

\* "if len(vector) != self.dimensions": zero-pad or truncate to n entries
Resize(v, n) == [i \in 1..n |-> IF i <= Len(v) THEN v[i] ELSE 0]

-----------------------------------------------------------------------------
(* The embedding provider: texts, their vectors and their keywords *)

TxtEmpty == << >>
TxtHi == <<"hi">>
TxtCoffee == <<"coffee", "with", "sarah">>
TxtGuitar == <<"sarah", "plays", "guitar">>
TxtNight == <<"quiet", "night", "alone">>
TxtLong == <<"morning", "ritual", "practice", "chords", "career", "promotion", "friend">>
TxtChords == <<"guitar", "chords">>
TxtWhy == <<"why">>

AllTexts == {TxtEmpty, TxtHi, TxtCoffee, TxtGuitar, TxtNight, TxtLong}

STOPWORDS ==
    {"the", "and", "a", "an", "of", "in", "on", "for", "to", "is", "it", "that",
     "this", "with", "as", "was", "were", "by", "be", "are", "at", "from"}

\* embed_text: none for the empty text, else a unit vector (the zero vector
\* when the text has no trigram, a vector with one non-zero entry when it has
\* one), here of two entries
embed_text(text) ==
    CASE text = TxtEmpty  -> [none |-> TRUE,  vec |-> << >>]
      [] text = TxtHi     -> [none |-> FALSE, vec |-> <<0, 0>>]
      [] text = TxtCoffee -> [none |-> FALSE, vec |-> <<280, 960>>]
      [] text = TxtGuitar -> [none |-> FALSE, vec |-> <<960, -280>>]
      [] text = TxtNight  -> [none |-> FALSE, vec |-> <<-600, -800>>]
      [] text = TxtLong   -> [none |-> FALSE, vec |-> <<600, 800>>]
      [] text = TxtChords -> [none |-> FALSE, vec |-> <<800, 600>>]
      [] text = TxtWhy    -> [none |-> FALSE, vec |-> <<0, 1000>>]

\* extract_keywords: the words of at least min_len = 4 letters that are no
\* stopwords, and the bigrams of consecutive ones
extract_keywords(text) ==
    LET tokens == SelectSeq(text, LAMBDA w : Len(w) >= 4 /\ w \notin STOPWORDS)
    IN  {tokens[i] : i \in 1..Len(tokens)}
        \cup {tokens[i] \o "_" \o tokens[i + 1] : i \in 1..(Len(tokens) - 1)}

\* source_text[:200]; every text of the model is shorter than 200 characters
Prefix200(text) == text

\* str.startswith
StartsWith(s, p) == Len(p) <= Len(s) /\ SubSeq(s, 1, Len(p)) = p

-----------------------------------------------------------------------------
(* ResonanceField *)

CONSTRUCTIVE_THRESHOLD == 50    \* 0.05
DESTRUCTIVE_THRESHOLD == -200   \* -0.2
ENTANGLE_THRESHOLD == 450       \* 0.45
KEYWORD_BONUS == 150            \* 0.15
FIELD_NORM_LIMIT == 10
TOP_K == 3
MAX_QUANTUM_DIM == 1             \* 100 of the provider's 384 entries: here 1 of 2

\* phase = (self.time * 0.1) % (2 * math.pi)
Phase(t) == (t * 100) % 6283

\* _create_quantum_state: the first L entries as the real part, the same
\* entries rolled by max(1, L // 4) and halved as the imaginary part, divided
\* by the norm; a zero vector gets 1e-9 added to every entry first
_create_quantum_state(vector) ==
    LET L == Min(MAX_QUANTUM_DIM, Len(vector))
        roll == Max(1, L \div 4)
        q == [i \in 1..L |-> C(vector[i], TruncDiv(vector[((i - 1 - roll) % L) + 1], 2))]
    IN  IF CNorm(q) = 0
        THEN CNormalized([i \in 1..L |-> C(1, 0)], CNorm([i \in 1..L |-> C(1, 0)]))
        ELSE CNormalized(q, CNorm(q))

\* the quantum state of a wave made from the vector v of the provider
QuantumOf(v) ==
    _create_quantum_state(IF Len(v) # dimensions THEN Resize(v, dimensions) ELSE v)

\* _create_wave stamping the wave with the time after the ingestion
create_wave_next_tick(text, id) ==
    LET e == embed_text(text)
        v == IF e.none THEN ZeroVector(dimensions) ELSE e.vec
    IN  [id |-> id,
         vector |-> IF Len(v) # dimensions THEN Resize(v, dimensions) ELSE v,
         amplitude |-> SCALE,
         phase |-> Phase(time),
         timestamp |-> time + 1,
         source_text |-> text,
         keywords |-> extract_keywords(text),
         quantum_state |-> QuantumOf(v),
         entangled_with |-> {}]

\* _create_wave replacing a missing embedding by np.ones instead of np.zeros
create_wave_ones_for_none(text, id) ==
    LET e == embed_text(text)
        v == IF e.none THEN [i \in 1..dimensions |-> SCALE] ELSE e.vec
    IN  [id |-> id,
         vector |-> IF Len(v) # dimensions THEN Resize(v, dimensions) ELSE v,
         amplitude |-> SCALE,
         phase |-> Phase(time),
         timestamp |-> time,
         source_text |-> text,
         keywords |-> extract_keywords(text),
         quantum_state |-> QuantumOf(v),
         entangled_with |-> {}]

\* _create_wave
_create_wave(text, id) ==
    LET e == embed_text(text)
        v == IF e.none THEN ZeroVector(dimensions) ELSE e.vec
    IN  [id |-> id,
         vector |-> IF Len(v) # dimensions THEN Resize(v, dimensions) ELSE v,
         amplitude |-> SCALE,
         phase |-> Phase(time),
         timestamp |-> time,
         source_text |-> text,
         keywords |-> extract_keywords(text),
         quantum_state |-> QuantumOf(v),
         entangled_with |-> {}]

\* the similarity of _apply_interference without the keyword bonus
InterferenceSimCosineOnly(nw, w) ==
    TruncDiv(Dot(nw.vector, w.vector) * SCALE, NormOr1(nw.vector) * NormOr1(w.vector))

\* the similarity of _apply_interference: cosine plus the keyword bonus
InterferenceSim(nw, w) ==
    TruncDiv(Dot(nw.vector, w.vector) * SCALE, NormOr1(nw.vector) * NormOr1(w.vector))
    + KEYWORD_BONUS * Cardinality(nw.keywords \cap w.keywords)

\* the loop of _apply_interference without "w.entangled_with.add(new_wave.id)"
InterfereExistingOneSided(newId, w, sim) ==
    LET weighted == Mul(sim, w.amplitude)
    IN  [w EXCEPT
            !.amplitude = IF weighted > CONSTRUCTIVE_THRESHOLD
                              THEN Mul(@, SCALE + Mul(50, weighted))
                          ELSE IF weighted < DESTRUCTIVE_THRESHOLD
                              THEN Mul(@, SCALE - Mul(30, Abs(weighted)))
                          ELSE @]

\* the loop of _apply_interference, as it leaves the live wave w, whose
\* similarity with the new wave is sim
InterfereExisting(newId, w, sim) ==
    LET weighted == Mul(sim, w.amplitude)
    IN  [w EXCEPT
            !.amplitude = IF weighted > CONSTRUCTIVE_THRESHOLD
                              THEN Mul(@, SCALE + Mul(50, weighted))
                          ELSE IF weighted < DESTRUCTIVE_THRESHOLD
                              THEN Mul(@, SCALE - Mul(30, Abs(weighted)))
                          ELSE @,
            !.entangled_with = IF sim > ENTANGLE_THRESHOLD THEN @ \cup {newId} ELSE @]

\* the loop of _apply_interference, as it boosts the new wave: one factor
\* for every live wave, in the order of the live list
RECURSIVE NewAmplitude(_, _, _)
NewAmplitude(results, i, amp) ==
    IF i > Len(results) THEN amp
    ELSE NewAmplitude(results, i + 1,
             IF results[i].score > CONSTRUCTIVE_THRESHOLD
             THEN Mul(amp, SCALE + Mul(30, results[i].score)) ELSE amp)

\* the loop of _apply_interference: for every live wave, in order, its
\* similarity with the new wave and the (text, weighted) pair appended to
\* results; the weight uses the amplitude the wave has before its own boost
RECURSIVE InterferenceResults(_, _, _, _)
InterferenceResults(aw, nw, order, i) ==
    IF i > Len(order) THEN << >>
    ELSE LET w == aw[order[i]]
             sim == InterferenceSim(nw, w)
         IN  <<[id |-> w.id,
                sim |-> sim,
                text |-> Prefix200(w.source_text),
                score |-> Mul(sim, w.amplitude)]>>
             \o InterferenceResults(aw, nw, order, i + 1)

\* insert x after every entry whose score is at least x.score
RECURSIVE InsertDesc(_, _)
InsertDesc(sorted, x) ==
    IF sorted = << >> THEN <<x>>
    ELSE IF Head(sorted).score >= x.score
         THEN <<Head(sorted)>> \o InsertDesc(Tail(sorted), x)
         ELSE <<x>> \o sorted

\* list.sort(key = score, reverse = True): stable, descending
RECURSIVE SortDesc(_)
SortDesc(s) ==
    IF s = << >> THEN << >>
    ELSE InsertDesc(SortDesc(SubSeq(s, 1, Len(s) - 1)), s[Len(s)])

\* _apply_interference with the sort of results ascending ("reverse=True" left out)
apply_interference_ascending(aw, nw, order) ==
    LET results == InterferenceResults(aw, nw, order, 1)
        desc == SortDesc(results)
        sorted == [i \in 1..Len(desc) |-> desc[Len(desc) + 1 - i]]
        simOf == [i \in 1..Len(results) |-> results[i].sim]
        at == [id \in IdsOf(order) |-> CHOOSE i \in 1..Len(order) : order[i] = id]
    IN  [aw |-> Append([id \in DOMAIN aw |->
                          IF id \in IdsOf(order)
                          THEN InterfereExisting(nw.id, aw[id], simOf[at[id]])
                          ELSE aw[id]],
                       [nw EXCEPT
                           !.amplitude = NewAmplitude(results, 1, @),
                           !.entangled_with =
                               @ \cup {results[i].id : i \in
                                         {j \in 1..Len(results) :
                                            results[j].sim > ENTANGLE_THRESHOLD}}]),
         resonances |-> [i \in 1..Min(TOP_K, Len(sorted)) |->
                           [text |-> sorted[i].text, score |-> sorted[i].score]]]

\* _apply_interference(new_wave): aw are the wave objects before the call,
\* order is the live list
_apply_interference(aw, nw, order) ==
    LET results == InterferenceResults(aw, nw, order, 1)
        sorted == SortDesc(results)
        simOf == [i \in 1..Len(results) |-> results[i].sim]
        at == [id \in IdsOf(order) |-> CHOOSE i \in 1..Len(order) : order[i] = id]
    IN  [aw |-> Append([id \in DOMAIN aw |->
                          IF id \in IdsOf(order)
                          THEN InterfereExisting(nw.id, aw[id], simOf[at[id]])
                          ELSE aw[id]],
                       [nw EXCEPT
                           !.amplitude = NewAmplitude(results, 1, @),
                           !.entangled_with =
                               @ \cup {results[i].id : i \in
                                         {j \in 1..Len(results) :
                                            results[j].sim > ENTANGLE_THRESHOLD}}]),
         resonances |-> [i \in 1..Min(TOP_K, Len(sorted)) |->
                           [text |-> sorted[i].text, score |-> sorted[i].score]]]

TensorIndex == (1..dimensions) \X (1..dimensions)
ZeroTensor == [ij \in TensorIndex |-> [re |-> 0, im |-> 0]]

\* np.abs of one complex entry
AbsC(z) == ISqrt(z.re * z.re + z.im * z.im)

RECURSIVE MaxOver(_, _)
MaxOver(f, S) ==
    IF S = {} THEN 0
    ELSE LET x == CHOOSE y \in S : TRUE
         IN  Max(f[x], MaxOver(f, S \ {x}))

\* np.max(np.abs(tensor))
MaxAbs(T) == MaxOver([ij \in DOMAIN T |-> AbsC(T[ij])], DOMAIN T)

\* field_tensor += amplitude * outer(vec, vec) * exp(1j * phase)
Accumulate(T, w) ==
    [ij \in TensorIndex |->
        LET a == Mul(w.amplitude, Mul(w.vector[ij[1]], w.vector[ij[2]]))
        IN  [re |-> T[ij].re + TruncDiv(a * CosFP(w.phase), SCALE * (SCALE \div TSCALE)),
             im |-> T[ij].im + TruncDiv(a * SinFP(w.phase), SCALE * (SCALE \div TSCALE))]]

\* a clip that shortens every entry above the limit on its own
ClipTensorEntrywise(T) ==
    [ij \in DOMAIN T |->
        IF AbsC(T[ij]) > FIELD_NORM_LIMIT * TSCALE
        THEN [re |-> TruncDiv(T[ij].re * FIELD_NORM_LIMIT * TSCALE, AbsC(T[ij])),
              im |-> TruncDiv(T[ij].im * FIELD_NORM_LIMIT * TSCALE, AbsC(T[ij]))]
        ELSE T[ij]]

\* "if max_val > FIELD_NORM_LIMIT: field_tensor /= (max_val / FIELD_NORM_LIMIT)"
ClipTensor(T) ==
    LET m == MaxAbs(T)
    IN  IF m > FIELD_NORM_LIMIT * TSCALE
        THEN [ij \in DOMAIN T |->
                [re |-> TruncDiv(T[ij].re * FIELD_NORM_LIMIT * TSCALE, m),
                 im |-> TruncDiv(T[ij].im * FIELD_NORM_LIMIT * TSCALE, m)]]
        ELSE T

\* ResonanceField.add_experience, up to "self.waves.append(wave)" and with
\* "self.time += 1.0": the values it leaves behind
FieldAddExperienceOn(aw0, text) ==
    LET newId == Len(aw0) + 1
        nw == _create_wave(text, newId)
        r == IF waves = << >> THEN [aw |-> Append(aw0, nw), resonances |-> << >>]
             ELSE _apply_interference(aw0, nw, waves)
    IN  [id |-> newId,
         allWaves |-> r.aw,
         waves |-> Append(waves, newId),
         time |-> time + 1,
         resonances |-> r.resonances]

\* ResonanceField.add_experience(text) on the field's waves
FieldAddExperience(text) == FieldAddExperienceOn(allWaves, text)

ENTANGLEMENT_ALPHA == 50        \* 0.05

\* find_resonances: the cosine of the query and a live wave, times the
\* entanglement bonus
QuerySim(qvec, w) ==
    LET sim == TruncDiv(Dot(qvec, w.vector) * SCALE, Norm(qvec) * NormOr1(w.vector))
        ec == Cardinality(w.entangled_with)
    IN  IF ec > 0
        THEN Mul(sim, SCALE + Mul(ENTANGLEMENT_ALPHA, TruncDiv(ec * SCALE, ec + 5)))
        ELSE sim

\* find_resonances with "self.waves.sort(...)" in place of the sort of results
find_resonances_sorting_field(aw, live, query_text, top_k) ==
    LET e == embed_text(query_text)
    IN  IF e.none \/ Norm(e.vec) = 0
        THEN [error |-> "none", results |-> << >>, allWaves |-> aw, waves |-> live]
        ELSE IF \E i \in 1..Len(live) : Len(aw[live[i]].vector) # Len(e.vec)
        THEN [error |-> "ValueError", results |-> << >>, allWaves |-> aw, waves |-> live]
        ELSE LET sorted == SortDesc([i \in 1..Len(live) |->
                                       [id |-> live[i], score |-> QuerySim(e.vec, aw[live[i]])]])
             IN  [error |-> "none",
                  results |-> SubSeq(sorted, 1, Min(top_k, Len(sorted))),
                  allWaves |-> aw,
                  waves |-> [i \in 1..Len(sorted) |-> sorted[i].id]]

\* find_resonances(query_text, top_k): what it returns or raises (np.dot
\* raises ValueError for vectors of different lengths), and the wave objects
\* and the live list as it leaves them
find_resonances(aw, live, query_text, top_k) ==
    LET e == embed_text(query_text)
    IN  IF e.none \/ Norm(e.vec) = 0
        THEN [error |-> "none", results |-> << >>, allWaves |-> aw, waves |-> live]
        ELSE IF \E i \in 1..Len(live) : Len(aw[live[i]].vector) # Len(e.vec)
        THEN [error |-> "ValueError", results |-> << >>, allWaves |-> aw, waves |-> live]
        ELSE LET sorted == SortDesc([i \in 1..Len(live) |->
                                       [id |-> live[i], score |-> QuerySim(e.vec, aw[live[i]])]])
             IN  [error |-> "none",
                  results |-> SubSeq(sorted, 1, Min(top_k, Len(sorted))),
                  allWaves |-> aw,
                  waves |-> live]

-----------------------------------------------------------------------------
(* ResonanceField.get_field_energy *)

\* The energy is computed on floats of any size: a float is a number, inf,
\* -inf or nan.  Amplitudes are counted in units of 1e6, frequencies in units
\* of 0.01 and energies in units of 1e10.
Num(v) == [k |-> "num", v |-> v]
Inf == [k |-> "inf", v |-> 0]
NegInf == [k |-> "ninf", v |-> 0]
NaN == [k |-> "nan", v |-> 0]

\* a < b on floats: False whenever one of them is nan
FLt(a, b) ==
    CASE a.k = "nan" \/ b.k = "nan" -> FALSE
      [] a.k = "ninf" -> b.k # "ninf"
      [] a.k = "inf" -> FALSE
      [] b.k = "inf" -> TRUE
      [] b.k = "ninf" -> FALSE
      [] OTHER -> a.v < b.v

\* the builtins min(a, b) and max(a, b): the first argument unless the second
\* is smaller (larger)
PyMin(a, b) == IF FLt(b, a) THEN b ELSE a
PyMax(a, b) == IF FLt(a, b) THEN b ELSE a

AMP_LIMIT == 10000                  \* 1e10
FREQ_MIN == 1                       \* 0.01
FREQ_MAX == 100000                  \* 1000.0
ENERGY_CAP == 100000                \* 1e15

\* min(1e15, a * b) for numbers a, b >= 0
CappedProduct(a, b) ==
    IF a # 0 /\ b > ENERGY_CAP \div a THEN ENERGY_CAP ELSE Min(ENERGY_CAP, a * b)

\* the loop over self.waves: kinetic after the first n waves
RECURSIVE Kinetic(_, _)
Kinetic(ws, n) ==
    IF n = 0 THEN 0
    ELSE LET amp == PyMax(Num(-AMP_LIMIT), PyMin(Num(AMP_LIMIT), ws[n].amplitude)).v
             freq == PyMax(Num(FREQ_MIN), PyMin(Num(FREQ_MAX), ws[n].frequency)).v
             term == CappedProduct(amp * amp, freq)
         IN  Min(ENERGY_CAP, Kinetic(ws, n - 1) + term)

\* get_field_energy returning the total without the final cap
get_field_energy_uncapped(ws, tensor_energy) ==
    LET potential == PyMin(Num(ENERGY_CAP), tensor_energy)
        vacuum == (Len(ws) \div 1000000) \div 1000000
    IN  IF potential.k = "num"
        THEN Num(Kinetic(ws, Len(ws)) + potential.v + vacuum)
        ELSE potential

\* get_field_energy() on waves ws, with np.sum(np.abs(field_tensor)**2) given
get_field_energy(ws, tensor_energy) ==
    LET potential == PyMin(Num(ENERGY_CAP), tensor_energy)
        vacuum == (Len(ws) \div 1000000) \div 1000000      \* 0.01 * len(self.waves)
        total == IF potential.k = "num"
                 THEN Num(Kinetic(ws, Len(ws)) + potential.v + vacuum)
                 ELSE potential
    IN  PyMin(Num(ENERGY_CAP), total)

-----------------------------------------------------------------------------
(* QuantumEntanglement *)

\* get_entangled_ids: graph.get(wave_id, set())
get_entangled_ids(g, id) == IF id \in DOMAIN g THEN g[id] ELSE {}

\* graph.setdefault(a, set()).add(b)
GraphAdd(g, a, b) ==
    [k \in DOMAIN g \cup {a} |-> IF k = a THEN get_entangled_ids(g, a) \cup {b} ELSE g[k]]

\* entangle_waves(w1, w2), on the wave objects aw and the graph g
entangle_waves(aw, g, w1, w2) ==
    IF w1 = w2 THEN [aw |-> aw, graph |-> g]
    ELSE [aw |-> [aw EXCEPT ![w1].entangled_with = @ \cup {w2},
                            ![w2].entangled_with = @ \cup {w1}],
          graph |-> GraphAdd(GraphAdd(g, w1, w2), w2, w1)]

\* neighborhood with the frontier never advanced: every round looks at the
\* wave's own edges again
neighborhood_stuck(g, wid, depth) ==
    IF depth <= 0 THEN {} ELSE get_entangled_ids(g, wid) \ {wid}

\* the loop of neighborhood: n rounds left, visited and frontier as in the code
RECURSIVE Bfs(_, _, _, _)
Bfs(g, visited, frontier, n) ==
    IF n <= 0 THEN visited
    ELSE LET new_frontier ==
                 UNION {get_entangled_ids(g, wid) : wid \in frontier} \ visited
         IN  Bfs(g, visited \cup new_frontier, new_frontier, n - 1)

\* neighborhood(wave, depth)
neighborhood(g, wid, depth) == Bfs(g, {wid}, {wid}, depth) \ {wid}

-----------------------------------------------------------------------------
(* TemporalDecay and MemoryConsolidation *)

MIN_DECAY == 50                     \* 0.05
MAX_DECAY == 1000                   \* 1.0
consolidation_threshold == 700      \* 0.7
max_amplitude == 2000               \* 2.0
replay_factor == 1100               \* 1.1
MIN_CONSOLIDATION_AGE == 8
MIN_VIABLE_AMPLITUDE == 10          \* 0.01

\* TemporalDecay.exponential_decay(time_delta), rate 0.01
exponential_decay(time_delta) ==
    LET raw == ExpNeg(10 * time_delta)
    IN  [error |-> "none", value |-> Max(MIN_DECAY, Min(raw, MAX_DECAY))]

\* TemporalDecay.power_law_decay(time_delta), exponent 0.5: the root of 0 makes
\* the division raise, and the root of a negative number is a complex number
\* that min() cannot order
power_law_decay(time_delta) ==
    IF 1 + time_delta = 0 THEN [error |-> "ZeroDivisionError", value |-> 0]
    ELSE IF 1 + time_delta < 0 THEN [error |-> "TypeError", value |-> 0]
    ELSE LET raw == TruncDiv(SCALE * SCALE, ISqrt((1 + time_delta) * 10000) * 10)
         IN  [error |-> "none", value |-> Max(MIN_DECAY, Min(raw, MAX_DECAY))]

\* TemporalDecay.interference_protected_decay(time_delta, active_resonances);
\* where base is inf and protection 0.0 the product is nan, which the clamp
\* takes to MIN_DECAY as it takes the product 0
interference_protected_decay(time_delta, active_resonances) ==
    LET base == ExpNeg(10 * time_delta)
        protection == SCALE + Min(800, active_resonances * 100)
        raw == Mul(base, protection)
    IN  [error |-> "none", value |-> Max(MIN_DECAY, Min(raw, MAX_DECAY))]

\* TemporalDecay.adaptive_decay
adaptive_decay(w, time_delta) ==
    LET base == ExpNeg(10 * time_delta)
        importance_norm == Min(SCALE, TruncDiv(Cardinality(w.keywords) * SCALE, 12))
        entanglement_norm == Min(SCALE, TruncDiv(Cardinality(w.entangled_with) * SCALE, 10))
        protected == Mul(base, 700 + Mul(300, importance_norm) + Mul(300, entanglement_norm))
    IN  Max(MIN_DECAY, Min(protected, MAX_DECAY))

\* Wave.apply_decay, the amplitude
\* Wave.apply_decay losing the amplitude with the coherence: the factor is
\* multiplied by the norm of the state after the noise
apply_decay_by_coherence(w, decay_factor, noise) ==
    LET qs == [i \in 1..Len(w.quantum_state) |->
                 C(w.quantum_state[i].re + noise.re, w.quantum_state[i].im + noise.im)]
        norm == CNorm(qs)
    IN  IF norm = 0 THEN [w EXCEPT !.amplitude = Mul(@, decay_factor)]
        ELSE [w EXCEPT !.amplitude = Mul(Mul(@, decay_factor), norm),
                       !.quantum_state = CNormalized(qs, norm)]

\* Wave.apply_decay(decay_factor), the rng drawing noise for every entry
apply_decay(w, decay_factor, noise) ==
    LET qs == [i \in 1..Len(w.quantum_state) |->
                 C(w.quantum_state[i].re + noise.re, w.quantum_state[i].im + noise.im)]
        norm == CNorm(qs)
    IN  IF norm = 0 THEN [w EXCEPT !.amplitude = Mul(@, decay_factor)]
        ELSE [w EXCEPT !.amplitude = Mul(@, decay_factor),
                       !.quantum_state = CNormalized(qs, norm)]

\* MemoryConsolidation._should_consolidate
_should_consolidate(w, current_time) ==
    IF current_time - w.timestamp < MIN_CONSOLIDATION_AGE THEN FALSE
    ELSE \/ w.amplitude > consolidation_threshold
         \/ Cardinality(w.entangled_with) >= 2
         \/ Cardinality(w.keywords) >= 4

COHERENCE_GAIN == 1050              \* 1.05

\* MemoryConsolidation._apply_consolidation: the amplitude, then the quantum
\* state times 1.05 and divided by its norm
_apply_consolidation(w) ==
    LET qs == [i \in 1..Len(w.quantum_state) |->
                 C(Mul(w.quantum_state[i].re, COHERENCE_GAIN),
                   Mul(w.quantum_state[i].im, COHERENCE_GAIN))]
        n == CNorm(qs)
    IN  [w EXCEPT !.amplitude = Min(Mul(@, replay_factor), max_amplitude),
                  !.quantum_state = IF n > 0 THEN CNormalized(qs, n) ELSE qs]

\* what the rng adds to the entries of a quantum state: nothing, or one
\* standard deviation (0.01) either way
Noises == {C(0, 0), C(10, -10)}

\* the draws of one _apply_temporal_decay: the noise of the waves with an odd
\* and with an even creation index
Draws == Noises \X Noises
Calm == <<C(0, 0), C(0, 0)>>

NoiseFor(draw, id) == draw[(id % 2) + 1]

\* the decay loop and consolidate, for one wave
DecayAndConsolidate(w, current_time, noise) ==
    LET d == apply_decay(w, adaptive_decay(w, current_time - w.timestamp), noise)
    IN  IF _should_consolidate(d, current_time) THEN _apply_consolidation(d) ELSE d

\* _apply_temporal_decay removing the weak waves before the decay
apply_temporal_decay_prune_first(aw, live, current_time, draw) ==
    LET kept == SelectSeq(live, LAMBDA id : aw[id].amplitude > MIN_VIABLE_AMPLITUDE)
    IN  [aw |-> [id \in DOMAIN aw |->
                   IF id \in IdsOf(kept)
                   THEN DecayAndConsolidate(aw[id], current_time, NoiseFor(draw, id))
                   ELSE aw[id]],
         waves |-> kept]

\* EnhancedTSW._apply_temporal_decay on the wave objects aw and the live list
_apply_temporal_decay(aw, live, current_time, draw) ==
    LET after == [id \in DOMAIN aw |->
                    IF id \in IdsOf(live)
                    THEN DecayAndConsolidate(aw[id], current_time, NoiseFor(draw, id))
                    ELSE aw[id]]
    IN  [aw |-> after,
         waves |-> SelectSeq(live, LAMBDA id : after[id].amplitude > MIN_VIABLE_AMPLITUDE)]

-----------------------------------------------------------------------------
(* TemporalBraid *)

BRAID_APPEND_SIM == 300             \* 0.30
MAX_BRAID_GAP == 3600

\* _similarity_score
_similarity_score(w1, w2) ==
    LET kw1 == w1.keywords
        kw2 == w2.keywords
        kw_score == IF kw1 \cup kw2 # {}
                    THEN TruncDiv(Cardinality(kw1 \cap kw2) * SCALE,
                                  Max(1, Cardinality(kw1 \cup kw2)))
                    ELSE 0
        n1 == Norm(w1.vector)
        n2 == Norm(w2.vector)
        cos == IF n1 > 0 /\ n2 > 0
               THEN TruncDiv(Dot(w1.vector, w2.vector) * SCALE, n1 * n2)
               ELSE 0
    IN  Mul(600, 2 * kw_score - SCALE) + Mul(400, cos)

\* _get_wave_by_id looking the wave up among all the waves ever created
get_wave_by_id_ever(live, wid) == IF ~attached THEN 0 ELSE wid

\* _get_wave_by_id: the id when the braid has a field and the wave is live,
\* else 0 (None)
_get_wave_by_id(live, wid) ==
    IF ~attached THEN 0
    ELSE IF wid \in IdsOf(live) THEN wid ELSE 0

\* the loop of weave over the braids: the best braid so far (0-based index,
\* none when found is FALSE) with its score
RECURSIVE WeaveLoop(_, _, _, _, _, _)
WeaveLoop(aw, live, bs, wid, i, best) ==
    IF i > Len(bs) THEN best
    ELSE LET braid == bs[i]
             tail == IF braid = << >> THEN 0
                     ELSE _get_wave_by_id(live, braid[Len(braid)])
         IN  IF tail = 0 THEN WeaveLoop(aw, live, bs, wid, i + 1, best)
             ELSE LET score == _similarity_score(aw[wid], aw[tail])
                  IN  IF aw[wid].timestamp - aw[tail].timestamp > MAX_BRAID_GAP
                      THEN WeaveLoop(aw, live, bs, wid, i + 1, best)
                      ELSE IF ~best.found \/ score > best.score
                      THEN WeaveLoop(aw, live, bs, wid, i + 1,
                                     [found |-> TRUE, idx |-> i - 1, score |-> score])
                      ELSE WeaveLoop(aw, live, bs, wid, i + 1, best)

CountOf(oc, wid) == IF wid \in DOMAIN oc THEN oc[wid] ELSE 0

\* weave without "if wid in self._id_to_braid: return"
weave_again(aw, live, wid) ==
    LET oc == [k \in DOMAIN occurrence_counts \cup {wid} |->
                 IF k = wid THEN CountOf(occurrence_counts, wid) + 1
                 ELSE occurrence_counts[k]]
        best == WeaveLoop(aw, live, braids, wid, 1,
                          [found |-> FALSE, idx |-> 0, score |-> 0])
    IN  IF best.found /\ best.score >= BRAID_APPEND_SIM
        THEN [braids |-> [braids EXCEPT ![best.idx + 1] = Append(@, wid)],
              id_to_braid |-> [k \in DOMAIN id_to_braid \cup {wid} |->
                                 IF k = wid THEN best.idx ELSE id_to_braid[k]],
              occurrence_counts |-> oc]
        ELSE [braids |-> Append(braids, <<wid>>),
              id_to_braid |-> [k \in DOMAIN id_to_braid \cup {wid} |->
                                 IF k = wid THEN Len(braids) ELSE id_to_braid[k]],
              occurrence_counts |-> oc]

\* weave appending to the best braid whatever its score ("and best_score >=
\* BRAID_APPEND_SIM" left out)
weave_best_always(aw, live, wid) ==
    LET oc == [k \in DOMAIN occurrence_counts \cup {wid} |->
                 IF k = wid THEN CountOf(occurrence_counts, wid) + 1
                 ELSE occurrence_counts[k]]
        best == WeaveLoop(aw, live, braids, wid, 1,
                          [found |-> FALSE, idx |-> 0, score |-> 0])
    IN  IF wid \in DOMAIN id_to_braid
        THEN [braids |-> braids, id_to_braid |-> id_to_braid, occurrence_counts |-> oc]
        ELSE IF best.found
        THEN [braids |-> [braids EXCEPT ![best.idx + 1] = Append(@, wid)],
              id_to_braid |-> [k \in DOMAIN id_to_braid \cup {wid} |->
                                 IF k = wid THEN best.idx ELSE id_to_braid[k]],
              occurrence_counts |-> oc]
        ELSE [braids |-> Append(braids, <<wid>>),
              id_to_braid |-> [k \in DOMAIN id_to_braid \cup {wid} |->
                                 IF k = wid THEN Len(braids) ELSE id_to_braid[k]],
              occurrence_counts |-> oc]

\* weave(wave), on the wave objects aw and the live list of the field
weave(aw, live, wid) ==
    LET oc == [k \in DOMAIN occurrence_counts \cup {wid} |->
                 IF k = wid THEN CountOf(occurrence_counts, wid) + 1
                 ELSE occurrence_counts[k]]
        best == WeaveLoop(aw, live, braids, wid, 1,
                          [found |-> FALSE, idx |-> 0, score |-> 0])
    IN  IF wid \in DOMAIN id_to_braid
        THEN [braids |-> braids, id_to_braid |-> id_to_braid, occurrence_counts |-> oc]
        ELSE IF best.found /\ best.score >= BRAID_APPEND_SIM
        THEN [braids |-> [braids EXCEPT ![best.idx + 1] = Append(@, wid)],
              id_to_braid |-> [k \in DOMAIN id_to_braid \cup {wid} |->
                                 IF k = wid THEN best.idx ELSE id_to_braid[k]],
              occurrence_counts |-> oc]
        ELSE [braids |-> Append(braids, <<wid>>),
              id_to_braid |-> [k \in DOMAIN id_to_braid \cup {wid} |->
                                 IF k = wid THEN Len(braids) ELSE id_to_braid[k]],
              occurrence_counts |-> oc]

\* the loops of detect_patterns: braid b, start (0-based) and length of every
\* slice taken
Occurrences(bs, max_pattern_len) ==
    {o \in (1..Len(bs)) \X (0..(DepthBraid + 1)) \X (2..Max(2, max_pattern_len)) :
        /\ o[2] < Len(bs[o[1]])
        /\ o[3] <= Min(max_pattern_len, Len(bs[o[1]]) - o[2])}

\* the loops with "range(2, max_pattern_len + 1)", not clipped to the braid
OccurrencesUnclipped(bs, max_pattern_len) ==
    {o \in (1..Len(bs)) \X (0..(DepthBraid + 1)) \X (2..Max(2, max_pattern_len)) :
        /\ o[2] < Len(bs[o[1]])
        /\ o[3] <= max_pattern_len}

\* tuple(braid[start:start + length]): a slice ends where the braid ends
SliceOf(bs, o) == SubSeq(bs[o[1]], o[2] + 1, Min(o[2] + o[3], Len(bs[o[1]])))

\* results.sort(key = (count, length), reverse = True) over the entries of
\* pattern_counts: stable, so equal keys stay in the order of first insertion
RECURSIVE SortPatterns(_)
SortPatterns(S) ==
    IF S = {} THEN << >>
    ELSE LET x == CHOOSE x \in S : \A y \in S \ {x} :
                      \/ x.count > y.count
                      \/ /\ x.count = y.count
                         /\ \/ Len(x.pattern) > Len(y.pattern)
                            \/ Len(x.pattern) = Len(y.pattern) /\ x.first < y.first
         IN  <<[pattern |-> x.pattern, count |-> x.count]>> \o SortPatterns(S \ {x})

\* pattern_counts over the slices occ, filtered by min_repeats and sorted
PatternResults(bs, occ, min_repeats) ==
    LET rank(o) == (o[1] * (DepthBraid + 2) + o[2]) * (DepthBraid + 2) + o[3]
        entry(p) ==
            LET at == {o \in occ : SliceOf(bs, o) = p}
            IN  [pattern |-> p, count |-> Cardinality(at),
                 first |-> CHOOSE r \in {rank(o) : o \in at} :
                               \A q \in {rank(o) : o \in at} : r <= q]
    IN  SortPatterns({e \in {entry(SliceOf(bs, o)) : o \in occ} : e.count >= min_repeats})

\* detect_patterns with the lengths not clipped to the braid
detect_patterns_unclipped(bs, min_repeats, max_pattern_len) ==
    PatternResults(bs, OccurrencesUnclipped(bs, max_pattern_len), min_repeats)

\* detect_patterns(min_repeats, max_pattern_len)
detect_patterns(bs, min_repeats, max_pattern_len) ==
    PatternResults(bs, Occurrences(bs, max_pattern_len), min_repeats)

\* detect_causal_loops(max_loop_len, min_occurrences): the loops it returns
\* and keeps in causal_loops
detect_causal_loops(bs, max_loop_len, min_occurrences) ==
    LET patterns == detect_patterns(bs, min_occurrences, max_loop_len)
        loops == SelectSeq(patterns, LAMBDA r : r.count >= min_occurrences
                                                /\ Len(r.pattern) >= 2)
    IN  [i \in 1..Len(loops) |-> loops[i].pattern]

-----------------------------------------------------------------------------
(* HolographicMemory *)

CZero == [re |-> 0, im |-> 0]

\* the product of two complex numbers
CMul(a, b) ==
    [re |-> Mul(a.re, b.re) - Mul(a.im, b.im),
     im |-> Mul(a.re, b.im) + Mul(a.im, b.re)]

\* exp(-2 pi i j / n), for the vector lengths of the model
UnitRoot(n, j) ==
    CASE n = 1 -> [re |-> SCALE, im |-> 0]
      [] n = 2 -> [re |-> IF j = 0 THEN SCALE ELSE -SCALE, im |-> 0]
      [] n = 3 -> IF j = 0 THEN [re |-> SCALE, im |-> 0]
                  ELSE [re |-> -500, im |-> IF j = 1 THEN -866 ELSE 866]
      [] n = 4 -> [re |-> IF j = 0 THEN SCALE ELSE IF j = 2 THEN -SCALE ELSE 0,
                   im |-> IF j = 1 THEN -SCALE ELSE IF j = 3 THEN SCALE ELSE 0]

\* np.fft.fft(v), bin k (1-based)
FFTBin(v, k) ==
    LET n == Len(v)
        t == [m \in 1..n |-> UnitRoot(n, ((k - 1) * (m - 1)) % n)]
    IN  [re |-> SumTo([m \in 1..n |-> Mul(v[m], t[m].re)], n),
         im |-> SumTo([m \in 1..n |-> Mul(v[m], t[m].im)], n)]

\* _project_to_frame: the leading bins of the FFT, zero-padded to the frame
\* and scaled to unit norm
_project_to_frame(v) ==
    IF Len(v) = 0 THEN [k \in 1..HoloSize |-> CZero]
    ELSE LET proj == [k \in 1..HoloSize |-> IF k <= Len(v) THEN FFTBin(v, k) ELSE CZero]
             norm == ISqrt(SumTo([k \in 1..HoloSize |->
                                    proj[k].re * proj[k].re + proj[k].im * proj[k].im],
                                 HoloSize))
         IN  IF norm > 0
             THEN [k \in 1..HoloSize |->
                     [re |-> TruncDiv(proj[k].re * SCALE, norm),
                      im |-> TruncDiv(proj[k].im * SCALE, norm)]]
             ELSE proj

HoloIndex == (1..HoloSize) \X (1..HoloSize)
ZeroHologram == [ij \in HoloIndex |-> CZero]

\* add_to_hologram(wave): hologram += amplitude * exp(1j * phase) * outer(proj, conj(proj))
add_to_hologram(H, w) ==
    LET proj == _project_to_frame(w.vector)
        factor == [re |-> Mul(w.amplitude, CosFP(w.phase)),
                   im |-> Mul(w.amplitude, SinFP(w.phase))]
    IN  [ij \in HoloIndex |->
           LET pattern == CMul(proj[ij[1]], [re |-> proj[ij[2]].re, im |-> -proj[ij[2]].im])
               add == CMul(factor, pattern)
           IN  [re |-> H[ij].re + add.re, im |-> H[ij].im + add.im]]

\* a damage mask: an array of a shape, or None
NoMask == [none |-> TRUE, shape |-> <<0, 0>>, value |-> [ij \in {} |-> 0]]
MaskOf(r, c, v) ==
    [none |-> FALSE, shape |-> <<r, c>>, value |-> [ij \in (1..r) \X (1..c) |-> v[ij]]]
OnesMask(r, c) == MaskOf(r, c, [ij \in (1..r) \X (1..c) |-> SCALE])
\* the first row of the hologram lost
DamagedRow == MaskOf(HoloSize, HoloSize,
                     [ij \in HoloIndex |-> IF ij[1] = 1 THEN 0 ELSE SCALE])

\* H * damage_mask, entry by entry
ApplyMask(H, damage_mask) ==
    [ij \in HoloIndex |-> [re |-> Mul(H[ij].re, damage_mask.value[ij]),
                           im |-> Mul(H[ij].im, damage_mask.value[ij])]]

CConj(z) == [re |-> z.re, im |-> -z.im]
CSum(f, n) == [re |-> SumTo([k \in 1..n |-> f[k].re], n),
               im |-> SumTo([k \in 1..n |-> f[k].im], n)]

\* np.fft.ifft2(H), entry ab: the sum over the entries jk of
\* H[jk] * exp(2 pi i (a j + b k) / n), divided by n * n
IFFT2Entry(H, ab) ==
    LET n == HoloSize
        total == CSum([i \in 1..(n * n) |->
                         CMul(H[<<((i - 1) \div n) + 1, ((i - 1) % n) + 1>>],
                              CConj(UnitRoot(n, ((ab[1] - 1) * ((i - 1) \div n)
                                                 + (ab[2] - 1) * ((i - 1) % n)) % n)))],
                      n * n)
    IN  [re |-> TruncDiv(total.re, n * n), im |-> TruncDiv(total.im, n * n)]

\* np.abs(np.fft.ifft2(H))
ReconMag(H) == [ab \in HoloIndex |-> AbsC(IFFT2Entry(H, ab))]

NoRecon == [ij \in {} |-> 0]

\* reconstruct masking the hologram itself ("H = self.hologram; H *= damage_mask")
reconstruct_in_place(H, count, damage_mask) ==
    IF damage_mask.none
    THEN [error |-> "none", recon_mag |-> ReconMag(H), hologram |-> H, count |-> count]
    ELSE IF damage_mask.shape # <<HoloSize, HoloSize>>
    THEN [error |-> "ValueError", recon_mag |-> NoRecon, hologram |-> H, count |-> count]
    ELSE [error |-> "none", recon_mag |-> ReconMag(ApplyMask(H, damage_mask)),
          hologram |-> ApplyMask(H, damage_mask), count |-> count]

\* reconstruct keeping the entries the mask marks with 0
reconstruct_inverted_mask(H, count, damage_mask) ==
    IF damage_mask.none
    THEN [error |-> "none", recon_mag |-> ReconMag(H), hologram |-> H, count |-> count]
    ELSE IF damage_mask.shape # <<HoloSize, HoloSize>>
    THEN [error |-> "ValueError", recon_mag |-> NoRecon, hologram |-> H, count |-> count]
    ELSE [error |-> "none",
          recon_mag |-> ReconMag(ApplyMask(H, MaskOf(HoloSize, HoloSize,
                             [ij \in HoloIndex |-> SCALE - damage_mask.value[ij]]))),
          hologram |-> H, count |-> count]

\* reconstruct(damage_mask): the error raised, the map returned, and the
\* hologram and the count it leaves behind
reconstruct(H, count, damage_mask) ==
    IF damage_mask.none
    THEN [error |-> "none", recon_mag |-> ReconMag(H), hologram |-> H, count |-> count]
    ELSE IF damage_mask.shape # <<HoloSize, HoloSize>>
    THEN [error |-> "ValueError", recon_mag |-> NoRecon, hologram |-> H, count |-> count]
    ELSE [error |-> "none", recon_mag |-> ReconMag(ApplyMask(H, damage_mask)),
          hologram |-> H, count |-> count]

-----------------------------------------------------------------------------
(* SemanticCrystallizer *)

MIN_CLUSTER_SIZE == 2
KEYWORD_SEED_MIN_OVERLAP == 1
STABILITY_ALPHA == 600              \* 0.6
MAX_STABILITY == 1000               \* 1.0
crystallization_threshold == 700    \* 0.7

\* _keyword_seed_clusters: from the i-th live wave on, with the ids used so far
RECURSIVE SeedClusters(_, _, _, _)
SeedClusters(aw, live, i, used) ==
    IF i > Len(live) THEN << >>
    ELSE IF live[i] \in used THEN SeedClusters(aw, live, i + 1, used)
    ELSE LET cluster == <<live[i]>> \o
                 SelectSeq(SubSeq(live, i + 1, Len(live)),
                           LAMBDA id : /\ id \notin used
                                       /\ Cardinality(aw[live[i]].keywords \cap aw[id].keywords)
                                              >= KEYWORD_SEED_MIN_OVERLAP)
         IN  (IF Len(cluster) >= MIN_CLUSTER_SIZE THEN <<cluster>> ELSE << >>)
             \o SeedClusters(aw, live, i + 1, used \cup IdsOf(cluster))

\* _keyword_seed_clusters without used_ids: every live wave seeds a cluster
\* of all the later waves it shares a keyword with
keyword_seed_clusters_reusing(aw, live) ==
    LET cluster(i) == <<live[i]>> \o
            SelectSeq(SubSeq(live, i + 1, Len(live)),
                      LAMBDA id : Cardinality(aw[live[i]].keywords \cap aw[id].keywords)
                                      >= KEYWORD_SEED_MIN_OVERLAP)
        seeds == SelectSeq([i \in 1..Len(live) |-> i],
                           LAMBDA i : Len(cluster(i)) >= MIN_CLUSTER_SIZE)
    IN  [k \in 1..Len(seeds) |-> cluster(seeds[k])]

_keyword_seed_clusters(aw, live) == SeedClusters(aw, live, 1, {})

\* the cosine of _cluster_cohesion: 0 when one of the norms is 0
PairCos(v1, v2) ==
    IF Norm(v1) = 0 \/ Norm(v2) = 0 THEN 0
    ELSE TruncDiv(Dot(v1, v2) * SCALE, Norm(v1) * Norm(v2))

RECURSIVE SumOver(_, _)
SumOver(f, S) ==
    IF S = {} THEN 0
    ELSE LET x == CHOOSE y \in S : TRUE
         IN  f[x] + SumOver(f, S \ {x})

\* _cluster_cohesion: the mean pairwise cosine of the members' vectors
_cluster_cohesion(aw, cluster) ==
    LET n == Len(cluster)
        pairs == {p \in (1..n) \X (1..n) : p[1] < p[2]}
    IN  IF n <= 1 THEN 0
        ELSE TruncDiv(SumOver([p \in pairs |->
                                 PairCos(aw[cluster[p[1]]].vector, aw[cluster[p[2]]].vector)],
                              pairs),
                      Cardinality(pairs))

\* _combine_stability
_combine_stability(cohesion, avg_amplitude) ==
    LET coh01 == IF cohesion <= SCALE THEN TruncDiv(cohesion + SCALE, 2) ELSE cohesion
        amp_norm == Min(SCALE, TruncDiv(avg_amplitude, 2))
    IN  Mul(STABILITY_ALPHA, coh01) + Mul(SCALE - STABILITY_ALPHA, amp_norm)

\* _extract_common_keywords
_extract_common_keywords(aw, cluster) ==
    {k \in aw[cluster[1]].keywords : \A i \in 1..Len(cluster) : k \in aw[cluster[i]].keywords}

\* _representative_text: max(cluster, key = amplitude), the first of the largest
_representative_text(aw, cluster) ==
    LET best == CHOOSE i \in 1..Len(cluster) :
                    /\ \A j \in 1..Len(cluster) :
                           aw[cluster[j]].amplitude <= aw[cluster[i]].amplitude
                    /\ \A j \in 1..(i - 1) :
                           aw[cluster[j]].amplitude < aw[cluster[i]].amplitude
    IN  aw[cluster[best]].source_text

\* the crystal of a candidate cluster
Crystal(aw, cluster) ==
    LET cohesion == _cluster_cohesion(aw, cluster)
        avg_amplitude == TruncDiv(SumTo([i \in 1..Len(cluster) |-> aw[cluster[i]].amplitude],
                                        Len(cluster)),
                                  Len(cluster))
    IN  [members |-> cluster,
         size |-> Len(cluster),
         keywords |-> _extract_common_keywords(aw, cluster),
         cohesion |-> cohesion,
         avg_amplitude |-> avg_amplitude,
         stability |-> Min(MAX_STABILITY, _combine_stability(cohesion, avg_amplitude)),
         representative |-> _representative_text(aw, cluster)]

\* the stability check_crystallization compares with the threshold
Stability(aw, cluster) ==
    _combine_stability(_cluster_cohesion(aw, cluster),
                       TruncDiv(SumTo([i \in 1..Len(cluster) |-> aw[cluster[i]].amplitude],
                                      Len(cluster)),
                                Len(cluster)))

\* check_crystallization(field): the crystals it appends
check_crystallization(aw, live) ==
    IF Len(live) <= MIN_CLUSTER_SIZE THEN << >>
    ELSE LET candidates == SelectSeq(_keyword_seed_clusters(aw, live),
                                     LAMBDA c : /\ Len(c) >= MIN_CLUSTER_SIZE
                                                /\ Stability(aw, c) >= crystallization_threshold)
         IN  [i \in 1..Len(candidates) |-> Crystal(aw, candidates[i])]

\* check_crystallization recording a crystal only if it is not yet in the list
CrystalsAfterDistinct(cs, aw, live) ==
    cs \o SelectSeq(check_crystallization(aw, live),
                    LAMBDA c : \A i \in 1..Len(cs) : cs[i] # c)

\* "self.crystals.append(crystal)": the list check_crystallization leaves behind
CrystalsAfter(cs, aw, live) == cs \o check_crystallization(aw, live)

-----------------------------------------------------------------------------
(* QuantumSuperposition *)

\* np.vdot(m, psi): the first argument conjugated
VDot(m, psi) == CSum([i \in 1..Len(m) |-> CMul(CConj(m[i]), psi[i])], Len(m))

\* collapse_wavefunction dividing by "m_norm or 1.0" in place of the raise
collapse_wavefunction_unchecked(superposition, measurement_vector) ==
    LET dim == Min(Len(superposition), Len(measurement_vector))
        psi == SubSeq(superposition, 1, dim)
        m0 == SubSeq(measurement_vector, 1, dim)
        m_norm == IF CNorm(m0) = 0 THEN SCALE ELSE CNorm(m0)
        m == [i \in 1..dim |-> C(TruncDiv(m0[i].re * SCALE, m_norm),
                                 TruncDiv(m0[i].im * SCALE, m_norm))]
    IN  [error |-> "none", collapsed |-> m,
         probability |-> Mul(AbsC(VDot(m, psi)), AbsC(VDot(m, psi))),
         superposition |-> superposition]

\* collapse_wavefunction(superposition, measurement_vector): the error raised,
\* the pair returned, and the superposition array after the call
collapse_wavefunction(superposition, measurement_vector) ==
    LET dim == Min(Len(superposition), Len(measurement_vector))
        psi == SubSeq(superposition, 1, dim)
        m0 == SubSeq(measurement_vector, 1, dim)
        m_norm == CNorm(m0)
    IN  IF m_norm = 0
        THEN [error |-> "ValueError", collapsed |-> << >>, probability |-> 0,
              superposition |-> superposition]
        ELSE LET m == [i \in 1..dim |-> C(TruncDiv(m0[i].re * SCALE, m_norm),
                                          TruncDiv(m0[i].im * SCALE, m_norm))]
             IN  [error |-> "none", collapsed |-> m,
                  probability |-> Mul(AbsC(VDot(m, psi)), AbsC(VDot(m, psi))),
                  superposition |-> superposition]

\* create_superposition(waves): the sum of amplitude * exp(i phase) *
\* quantum_state over the waves, each state padded to the longest, divided by
\* its norm when that is not 0
create_superposition(aw, ids) ==
    LET lengths == {Len(aw[ids[k]].quantum_state) : k \in 1..Len(ids)}
        max_dim == IF lengths = {} THEN 0 ELSE CHOOSE n \in lengths : \A l \in lengths : l <= n
        term(k, i) ==
            IF i > Len(aw[ids[k]].quantum_state) THEN C(0, 0)
            ELSE CMul(C(Mul(aw[ids[k]].amplitude, CosFP(aw[ids[k]].phase)),
                        Mul(aw[ids[k]].amplitude, SinFP(aw[ids[k]].phase))),
                      aw[ids[k]].quantum_state[i])
        combined == [i \in 1..max_dim |-> CSum([k \in 1..Len(ids) |-> term(k, i)], Len(ids))]
    IN  IF ids = << >> \/ max_dim = 0 THEN << >>
        ELSE IF CNorm(combined) > 0 THEN CNormalized(combined, CNorm(combined))
        ELSE combined

-----------------------------------------------------------------------------
(* EnhancedTSW.add_experience *)

STRONG_RESONANCE == 500             \* 0.5

\* next((w for w in self.field.waves if w.source_text.startswith(other_text)), None)
RECURSIVE FirstMatch(_, _, _, _)
FirstMatch(aw, live, other_text, i) ==
    IF i > Len(live) THEN 0
    ELSE IF StartsWith(aw[live[i]].source_text, other_text) THEN live[i]
    ELSE FirstMatch(aw, live, other_text, i + 1)

\* "for other_text, strength in resonances: if strength > 0.5: ... entangle_waves"
RECURSIVE EntangleLoop(_, _, _, _, _, _)
EntangleLoop(aw, g, live, newId, resonances, i) ==
    IF i > Len(resonances) THEN [aw |-> aw, graph |-> g]
    ELSE LET other == IF resonances[i].score > STRONG_RESONANCE
                      THEN FirstMatch(aw, live, resonances[i].text, 1)
                      ELSE 0
             e == IF other # 0 THEN entangle_waves(aw, g, newId, other)
                  ELSE [aw |-> aw, graph |-> g]
         IN  EntangleLoop(e.aw, e.graph, live, newId, resonances, i + 1)

\* the amplitudes the model follows
Followed(aw) == \A id \in DOMAIN aw : Abs(aw[id].amplitude) <= MaxAmp

\* EnhancedTSW.add_experience(text), as the values it leaves behind:
\* ingest, weave, entangle the strong resonances, decay, consolidate, prune
add_experience_on(aw0, text, draw) ==
    LET f == CHOOSE v \in {FieldAddExperienceOn(aw0, text)} : TRUE
        followed == Followed(f.allWaves)
        b == weave(f.allWaves, f.waves, f.id)
        e == EntangleLoop(f.allWaves, graph, f.waves, f.id, f.resonances, 1)
        d == _apply_temporal_decay(e.aw, f.waves, f.time, draw)
        raw == Accumulate(field_tensor, f.allWaves[f.id])
    IN  IF ~followed THEN [followed |-> FALSE]
        ELSE [followed |-> TRUE,
              allWaves |-> d.aw,
              waves |-> d.waves,
              time |-> f.time,
              raw_tensor |-> raw,
              field_tensor |-> ClipTensor(raw),
              resonances |-> f.resonances,
              graph |-> e.graph,
              braids |-> b.braids,
              id_to_braid |-> b.id_to_braid,
              occurrence_counts |-> b.occurrence_counts,
              hologram |-> add_to_hologram(hologram, f.allWaves[f.id]),
              hologram_count |-> hologram_count + 1,
              crystals |-> CrystalsAfter(crystals, f.allWaves, f.waves)]

add_experience(text, draw) == add_experience_on(allWaves, text, draw)

AddExperience(text) ==
    /\ text \in corpus.texts
    /\ calls < corpus.depth
    /\ \E draw \in corpus.draws : \E r \in {add_experience(text, draw)} :
           /\ r.followed
           /\ allWaves' = r.allWaves
           /\ waves' = r.waves
           /\ time' = r.time
           /\ field_tensor' = r.field_tensor
           /\ raw_tensor' = r.raw_tensor
           /\ last_resonances' = r.resonances
           /\ graph' = r.graph
           /\ braids' = r.braids
           /\ id_to_braid' = r.id_to_braid
           /\ occurrence_counts' = r.occurrence_counts
           /\ hologram' = r.hologram
           /\ hologram_count' = r.hologram_count
           /\ crystals' = r.crystals
    /\ calls' = calls + 1
    /\ UNCHANGED <<attached, causal_loops, corpus, dimensions, input, outcome>>

\* the sessions of EnhancedTSW the model follows
Corpora ==
    {[texts |-> AllTexts, depth |-> DepthShort, draws |-> {Calm}],
     [texts |-> {TxtLong, TxtNight}, depth |-> DepthGrow, draws |-> {Calm}],
     [texts |-> {TxtHi}, depth |-> DepthFade, draws |-> {Calm}],
     [texts |-> {TxtLong, TxtGuitar}, depth |-> DepthMixed, draws |-> {Calm}]}

EmptyMap == [k \in {} |-> 0]

\* no query or pure function called yet
NoCall == [op |-> "none"]

\* EnhancedTSW.__init__: TemporalBraid() has no field
Init ==
    /\ dimensions = Dim
    /\ input = NoCall
    /\ outcome = NoCall
    /\ allWaves = << >>
    /\ waves = << >>
    /\ time = 0
    /\ field_tensor = ZeroTensor
    /\ raw_tensor = ZeroTensor
    /\ last_resonances = << >>
    /\ graph = EmptyMap
    /\ braids = << >>
    /\ id_to_braid = EmptyMap
    /\ occurrence_counts = EmptyMap
    /\ hologram = ZeroHologram
    /\ hologram_count = 0
    /\ crystals = << >>
    /\ attached = FALSE
    /\ causal_loops = << >>
    /\ calls = 0
    /\ corpus \in Corpora

Next == \E text \in AllTexts : AddExperience(text)

Spec == Init /\ [][Next]_vars

-----------------------------------------------------------------------------
(* EnhancedTSW.query and the InsightExtractor *)

QUERY_TOP_K == 5

\* snippet = source_text.strip().replace("\n", " ")[:240]; the texts of the
\* model have no line breaks and fewer than 240 characters
Snippet(text) == text

\* InsightExtractor._no_insight
_no_insight ==
    [answer |-> <<"I couldn't find any relevant patterns in memory yet.">>,
     confidence |-> 0,
     evidence |-> << >>]

\* InsightExtractor._compute_confidence: (max(scores) + 1) / 2 within [0, 1]
_compute_confidence(results) ==
    LET max_sim == CHOOSE x \in {results[i].score : i \in 1..Len(results)} :
                       \A i \in 1..Len(results) : results[i].score <= x
    IN  Max(0, Min(SCALE, TruncDiv(max_sim + SCALE, 2)))

\* InsightExtractor._format_evidence
_format_evidence(aw, results) ==
    [i \in 1..Len(results) |->
        [wave_id |-> results[i].id,
         similarity |-> results[i].score,
         text |-> Snippet(aw[results[i].id].source_text)]]

\* InsightExtractor._synthesize_answer_fallback
_synthesize_answer_fallback(evidence) ==
    IF evidence = << >> THEN <<"No relevant information available.">>
    ELSE <<"Based on the strongest memory pattern:">> \o evidence[1].text

\* InsightExtractor.extract_insight(question), without an llm
extract_insight(aw, live, question) ==
    LET r == find_resonances(aw, live, question, QUERY_TOP_K)
    IN  IF r.error # "none" THEN [error |-> r.error, record |-> [k \in {} |-> 0]]
        ELSE IF r.results = << >> THEN [error |-> "none", record |-> _no_insight]
        ELSE [error |-> "none",
              record |-> [question |-> question,
                          answer |-> _synthesize_answer_fallback(_format_evidence(aw, r.results)),
                          confidence |-> _compute_confidence(r.results),
                          top_resonances |-> Len(r.results),
                          evidence |-> _format_evidence(aw, r.results)]]

\* query_vector[:len(superposition_state)], as the complex vector
\* collapse_wavefunction makes of it
MeasurementOf(question, superposition_state) ==
    LET query_vector == embed_text(question).vec
        n == Min(Len(query_vector), Len(superposition_state))
    IN  [i \in 1..n |-> C(query_vector[i], 0)]

\* EnhancedTSW.query(question): the error it raises and where, the
\* resonances it found, the measurement vector it passed and the probability
\* it printed, and the record it returns
query(aw, live, question) ==
    LET r == find_resonances(aw, live, question, QUERY_TOP_K)
        resonating_waves == [k \in 1..Len(r.results) |-> r.results[k].id]
        superposition_state == create_superposition(aw, resonating_waves)
        measurement == MeasurementOf(question, superposition_state)
        c == collapse_wavefunction(superposition_state, measurement)
        insight == extract_insight(aw, live, question)
        failed(by, error) ==
            [error |-> error, raised_by |-> by, resonances |-> r.results,
             measurement |-> IF by = "find_resonances" THEN << >> ELSE measurement,
             probability |-> 0, returned |-> [k \in {} |-> 0]]
    IN  IF r.error # "none" THEN failed("find_resonances", r.error)
        ELSE IF r.results # << >> /\ c.error # "none"
        THEN failed("collapse_wavefunction", c.error)
        ELSE [error |-> "none", raised_by |-> "none", resonances |-> r.results,
              measurement |-> IF r.results = << >> THEN << >> ELSE measurement,
              probability |-> IF r.results = << >> THEN 0 ELSE c.probability,
              returned |-> insight.record]

SessionTexts == {TxtCoffee, TxtGuitar}
Questions == {TxtEmpty, TxtHi, TxtCoffee, TxtWhy}

Query(question) ==
    /\ \E q \in {query(allWaves, waves, question)} :
           outcome' = [op |-> "query", at |-> calls, error |-> q.error,
                       raised_by |-> q.raised_by, resonances |-> q.resonances,
                       measurement |-> q.measurement, probability |-> q.probability,
                       returned |-> q.returned]
    /\ input' = [op |-> "query", question |-> question]
    /\ UNCHANGED <<allWaves, waves, time, field_tensor, raw_tensor, last_resonances,
                   graph, braids, id_to_braid, occurrence_counts, hologram,
                   hologram_count, crystals, attached, causal_loops, calls, corpus,
                   dimensions>>

\* EnhancedTSW(): a session of ingestions and questions, with an rng that
\* draws freely
InitSession ==
    /\ dimensions = Dim
    /\ input = NoCall
    /\ outcome = NoCall
    /\ allWaves = << >>
    /\ waves = << >>
    /\ time = 0
    /\ field_tensor = ZeroTensor
    /\ raw_tensor = ZeroTensor
    /\ last_resonances = << >>
    /\ graph = EmptyMap
    /\ braids = << >>
    /\ id_to_braid = EmptyMap
    /\ occurrence_counts = EmptyMap
    /\ hologram = ZeroHologram
    /\ hologram_count = 0
    /\ crystals = << >>
    /\ attached = FALSE
    /\ causal_loops = << >>
    /\ calls = 0
    /\ corpus = [texts |-> SessionTexts, depth |-> DepthSession, draws |-> Draws]

NextSession ==
    \/ \E text \in SessionTexts : AddExperience(text)
    \/ \E question \in Questions : Query(question)

SpecSession == InitSession /\ [][NextSession]_vars

-----------------------------------------------------------------------------
(* The components called directly, with TemporalBraid(field) *)

CompTexts == {TxtCoffee, TxtGuitar, TxtHi}

\* ResonanceField.add_experience(text)
FieldAdd(text) ==
    /\ text \in corpus.texts
    /\ Len(allWaves) < corpus.depth
    /\ calls < corpus.calls
    /\ \E f \in {FieldAddExperience(text)} :
           /\ Followed(f.allWaves)
           /\ \E raw \in {Accumulate(field_tensor, f.allWaves[f.id])} :
                  /\ raw_tensor' = raw
                  /\ field_tensor' = ClipTensor(raw)
           /\ allWaves' = f.allWaves
           /\ waves' = f.waves
           /\ time' = f.time
           /\ last_resonances' = f.resonances
    /\ calls' = calls + 1
    /\ UNCHANGED <<graph, braids, id_to_braid, occurrence_counts, hologram,
                   hologram_count, crystals, attached, causal_loops, corpus, dimensions, input, outcome>>

\* QuantumEntanglement.entangle_waves(w1, w2)
EntangleWaves(w1, w2) ==
    /\ w1 \in DOMAIN allWaves
    /\ w2 \in DOMAIN allWaves
    /\ calls < corpus.calls
    /\ \E e \in {entangle_waves(allWaves, graph, w1, w2)} :
           /\ allWaves' = e.aw
           /\ graph' = e.graph
    /\ calls' = calls + 1
    /\ UNCHANGED <<waves, time, field_tensor, raw_tensor, last_resonances,
                   braids, id_to_braid, occurrence_counts, hologram,
                   hologram_count, crystals, attached, causal_loops, corpus, dimensions, input, outcome>>

\* TemporalBraid.weave(wave)
Weave(wid) ==
    /\ wid \in DOMAIN allWaves
    /\ calls < corpus.calls
    /\ CountOf(occurrence_counts, wid) < MaxWeaves
    /\ \E b \in {weave(allWaves, waves, wid)} :
           /\ braids' = b.braids
           /\ id_to_braid' = b.id_to_braid
           /\ occurrence_counts' = b.occurrence_counts
    /\ calls' = calls + 1
    /\ UNCHANGED <<allWaves, waves, time, field_tensor, raw_tensor, last_resonances,
                   graph, hologram, hologram_count, crystals, attached, causal_loops, corpus, dimensions, input, outcome>>

\* the decay, consolidation and pruning of _apply_temporal_decay
ApplyTemporalDecay ==
    /\ calls < corpus.calls
    /\ waves # << >>
    /\ \E draw \in corpus.draws : \E d \in {_apply_temporal_decay(allWaves, waves, time, draw)} :
           /\ allWaves' = d.aw
           /\ waves' = d.waves
    /\ calls' = calls + 1
    /\ UNCHANGED <<time, field_tensor, raw_tensor, last_resonances, graph,
                   braids, id_to_braid, occurrence_counts, hologram,
                   hologram_count, crystals, attached, causal_loops, corpus, dimensions, input, outcome>>

\* HolographicMemory.add_to_hologram(wave)
AddToHologram(wid) ==
    /\ wid \in DOMAIN allWaves
    /\ calls < corpus.calls
    /\ hologram' = add_to_hologram(hologram, allWaves[wid])
    /\ hologram_count' = hologram_count + 1
    /\ calls' = calls + 1
    /\ UNCHANGED <<allWaves, waves, time, field_tensor, raw_tensor, last_resonances,
                   graph, braids, id_to_braid, occurrence_counts, crystals,
                   attached, causal_loops, corpus, dimensions, input, outcome>>

\* SemanticCrystallizer.check_crystallization(field)
CheckCrystallization ==
    /\ calls < corpus.calls
    /\ crystals' = CrystalsAfter(crystals, allWaves, waves)
    /\ input' = [op |-> "check_crystallization"]
    /\ outcome' = [op |-> "check_crystallization", at |-> calls,
                   new_crystals |-> check_crystallization(allWaves, waves)]
    /\ calls' = calls + 1
    /\ UNCHANGED <<allWaves, waves, time, field_tensor, raw_tensor, last_resonances,
                   graph, braids, id_to_braid, occurrence_counts, hologram,
                   hologram_count, attached, causal_loops, corpus, dimensions>>

InitComponents ==
    /\ dimensions = Dim
    /\ input = NoCall
    /\ outcome = NoCall
    /\ allWaves = << >>
    /\ waves = << >>
    /\ time = 0
    /\ field_tensor = ZeroTensor
    /\ raw_tensor = ZeroTensor
    /\ last_resonances = << >>
    /\ graph = EmptyMap
    /\ braids = << >>
    /\ id_to_braid = EmptyMap
    /\ occurrence_counts = EmptyMap
    /\ hologram = ZeroHologram
    /\ hologram_count = 0
    /\ crystals = << >>
    /\ attached = TRUE
    /\ causal_loops = << >>
    /\ calls = 0
    /\ corpus = [texts |-> CompTexts, depth |-> DepthComp, calls |-> MaxCalls, draws |-> {Calm}]

NextComponents ==
    \/ \E text \in CompTexts : FieldAdd(text)
    \/ \E w1, w2 \in 1..DepthComp : EntangleWaves(w1, w2)
    \/ \E wid \in 1..DepthComp : Weave(wid)
    \/ ApplyTemporalDecay
    \/ \E wid \in 1..DepthComp : AddToHologram(wid)
    \/ CheckCrystallization

SpecComponents == InitComponents /\ [][NextComponents]_vars

-----------------------------------------------------------------------------
(* A field of any dimension, filled and then queried *)

QueryTexts == {TxtEmpty, TxtHi, TxtCoffee, TxtGuitar}
TopKs == {1, 5}

\* ResonanceField.find_resonances(query_text, top_k)
FindResonances(query_text, top_k) ==
    /\ \E r \in {find_resonances(allWaves, waves, query_text, top_k)} :
           /\ allWaves' = r.allWaves
           /\ waves' = r.waves
           /\ outcome' = [op |-> "find_resonances", at |-> calls,
                          error |-> r.error, results |-> r.results]
    /\ input' = [op |-> "find_resonances", query_text |-> query_text, top_k |-> top_k]
    /\ UNCHANGED <<time, field_tensor, raw_tensor, last_resonances, graph, braids,
                   id_to_braid, occurrence_counts, hologram, hologram_count,
                   crystals, attached, causal_loops, calls, corpus, dimensions>>

\* ResonanceField(dimensions), for a provider of vectors of length 2
InitQuery ==
    /\ dimensions \in {Dim - 1, Dim, Dim + 1}
    /\ input = NoCall
    /\ outcome = NoCall
    /\ allWaves = << >>
    /\ waves = << >>
    /\ time = 0
    /\ field_tensor = ZeroTensor
    /\ raw_tensor = ZeroTensor
    /\ last_resonances = << >>
    /\ graph = EmptyMap
    /\ braids = << >>
    /\ id_to_braid = EmptyMap
    /\ occurrence_counts = EmptyMap
    /\ hologram = ZeroHologram
    /\ hologram_count = 0
    /\ crystals = << >>
    /\ attached = TRUE
    /\ causal_loops = << >>
    /\ calls = 0
    /\ corpus = [texts |-> CompTexts, depth |-> DepthQuery, calls |-> MaxCalls, draws |-> {Calm}]

NextQuery ==
    \/ \E text \in CompTexts : FieldAdd(text)
    \/ \E w1, w2 \in 1..DepthQuery : EntangleWaves(w1, w2)
    \/ \E query_text \in QueryTexts, top_k \in TopKs : FindResonances(query_text, top_k)

SpecQuery == InitQuery /\ [][NextQuery]_vars

-----------------------------------------------------------------------------
(* A hologram, written and then read out *)

HoloTexts == {TxtCoffee, TxtGuitar}

Masks == {NoMask, DamagedRow}
             \cup {OnesMask(r, c) : r \in {HoloSize - 1, HoloSize}, c \in {HoloSize, HoloSize + 1}}

\* HolographicMemory.reconstruct(damage_mask)
Reconstruct(damage_mask) ==
    /\ \E r \in {reconstruct(hologram, hologram_count, damage_mask)} :
           /\ hologram' = r.hologram
           /\ hologram_count' = r.count
           /\ outcome' = [op |-> "reconstruct", error |-> r.error,
                          recon_mag |-> r.recon_mag]
    /\ input' = [op |-> "reconstruct", damage_mask |-> damage_mask]
    /\ UNCHANGED <<allWaves, waves, time, field_tensor, raw_tensor, last_resonances,
                   graph, braids, id_to_braid, occurrence_counts, crystals,
                   attached, causal_loops, calls, corpus, dimensions>>

NextHologram ==
    \/ \E text \in HoloTexts : FieldAdd(text)
    \/ \E wid \in 1..DepthHolo : hologram_count < MaxStored /\ AddToHologram(wid)
    \/ \E damage_mask \in Masks : Reconstruct(damage_mask)

\* HolographicMemory(size), beside a field of two texts
InitHologram ==
    /\ dimensions = Dim
    /\ input = NoCall
    /\ outcome = NoCall
    /\ allWaves = << >>
    /\ waves = << >>
    /\ time = 0
    /\ field_tensor = ZeroTensor
    /\ raw_tensor = ZeroTensor
    /\ last_resonances = << >>
    /\ graph = EmptyMap
    /\ braids = << >>
    /\ id_to_braid = EmptyMap
    /\ occurrence_counts = EmptyMap
    /\ hologram = ZeroHologram
    /\ hologram_count = 0
    /\ crystals = << >>
    /\ attached = TRUE
    /\ causal_loops = << >>
    /\ calls = 0
    /\ corpus = [texts |-> HoloTexts, depth |-> DepthHolo, calls |-> MaxCalls, draws |-> {Calm}]

SpecHologram == InitHologram /\ [][NextHologram]_vars

-----------------------------------------------------------------------------
(* Single calls of the functions that take their inputs as arguments *)

Superpositions ==
    {<< >>, <<C(SCALE, 0)>>, <<C(600, 0), C(0, 800)>>, <<C(0, 0), C(0, 0)>>}

Measurements ==
    {<< >>, <<C(0, 0)>>, <<C(0, 0), C(0, 0)>>, <<C(0, 0), C(0, 0), C(0, 0)>>,
     <<C(SCALE, 0)>>, <<C(0, 0), C(3000, 4000)>>, <<C(600, 800), C(0, 0), C(500, 0)>>}

CollapseCalls ==
    {[op |-> "collapse_wavefunction", superposition |-> psi, measurement_vector |-> m] :
        psi \in Superpositions, m \in Measurements}

\* QuantumSuperposition.collapse_wavefunction(superposition, measurement_vector)
CollapseWavefunction ==
    /\ input.op = "collapse_wavefunction"
    /\ outcome = NoCall
    /\ \E r \in {collapse_wavefunction(input.superposition, input.measurement_vector)} :
           /\ outcome' = [op |-> "collapse_wavefunction", error |-> r.error,
                          collapsed |-> r.collapsed, probability |-> r.probability]
           /\ input' = [input EXCEPT !.superposition = r.superposition]
    /\ UNCHANGED <<allWaves, waves, time, field_tensor, raw_tensor, last_resonances,
                   graph, braids, id_to_braid, occurrence_counts, hologram,
                   hologram_count, crystals, attached, causal_loops, calls, corpus, dimensions>>

TimeDeltas == {-MaxDelta, -2, -1, 0, 1, 50, MaxDelta}
Counts == {0, 3, MaxCount}

DecayCalls ==
    {[op |-> op, time_delta |-> td] :
        op \in {"exponential_decay", "power_law_decay"}, td \in TimeDeltas}
    \cup {[op |-> "adaptive_decay", time_delta |-> td,
           wave |-> [keywords |-> 1..k, entangled_with |-> 1..e]] :
             td \in TimeDeltas, k \in Counts, e \in Counts}
    \cup {[op |-> "interference_protected_decay", time_delta |-> td,
           active_resonances |-> n] : td \in TimeDeltas, n \in Counts \cup {-10}}

\* what a call leaves alone
FieldUnchanged ==
    UNCHANGED <<input, allWaves, waves, time, field_tensor, raw_tensor, last_resonances,
                graph, braids, id_to_braid, occurrence_counts, hologram,
                hologram_count, crystals, attached, causal_loops, calls, corpus, dimensions>>

\* TemporalDecay.exponential_decay(time_delta)
ExponentialDecay ==
    /\ input.op = "exponential_decay"
    /\ outcome = NoCall
    /\ \E r \in {exponential_decay(input.time_delta)} :
           outcome' = [op |-> input.op, error |-> r.error, value |-> r.value]
    /\ FieldUnchanged

\* TemporalDecay.power_law_decay(time_delta)
PowerLawDecay ==
    /\ input.op = "power_law_decay"
    /\ outcome = NoCall
    /\ \E r \in {power_law_decay(input.time_delta)} :
           outcome' = [op |-> input.op, error |-> r.error, value |-> r.value]
    /\ FieldUnchanged

\* TemporalDecay.adaptive_decay(wave, time_delta, field_context)
AdaptiveDecay ==
    /\ input.op = "adaptive_decay"
    /\ outcome = NoCall
    /\ outcome' = [op |-> input.op, error |-> "none",
                   value |-> adaptive_decay(input.wave, input.time_delta)]
    /\ FieldUnchanged

\* TemporalDecay.interference_protected_decay(time_delta, active_resonances)
InterferenceProtectedDecay ==
    /\ input.op = "interference_protected_decay"
    /\ outcome = NoCall
    /\ \E r \in {interference_protected_decay(input.time_delta, input.active_resonances)} :
           outcome' = [op |-> input.op, error |-> r.error, value |-> r.value]
    /\ FieldUnchanged

\* fields of waves with amplitudes and frequencies of any size, and tensors
\* with sums of any size
EnergyCalls ==
    {[op |-> "get_field_energy", waves |-> ws, tensor_energy |-> t] :
        ws \in UNION {[1..n -> [amplitude : {Num(3), Num(2 * AMP_LIMIT), Inf, NegInf, NaN},
                                frequency : {Num(100), NaN}]] : n \in 0..MaxEnergyWaves},
        t \in {Num(0), Num(ENERGY_CAP + 1), Inf, NaN}}

\* ResonanceField.get_field_energy()
GetFieldEnergy ==
    /\ input.op = "get_field_energy"
    /\ outcome = NoCall
    /\ outcome' = [op |-> input.op,
                   value |-> get_field_energy(input.waves, input.tensor_energy)]
    /\ FieldUnchanged

Calls == CollapseCalls \cup DecayCalls \cup EnergyCalls

InitCalls ==
    /\ dimensions = Dim
    /\ input \in Calls
    /\ outcome = NoCall
    /\ allWaves = << >>
    /\ waves = << >>
    /\ time = 0
    /\ field_tensor = ZeroTensor
    /\ raw_tensor = ZeroTensor
    /\ last_resonances = << >>
    /\ graph = EmptyMap
    /\ braids = << >>
    /\ id_to_braid = EmptyMap
    /\ occurrence_counts = EmptyMap
    /\ hologram = ZeroHologram
    /\ hologram_count = 0
    /\ crystals = << >>
    /\ attached = TRUE
    /\ causal_loops = << >>
    /\ calls = 0
    /\ corpus = [texts |-> HoloTexts, depth |-> DepthHolo, calls |-> MaxCalls, draws |-> {Calm}]

NextCalls ==
    \/ \E text \in HoloTexts : FieldAdd(text)
    \/ CollapseWavefunction
    \/ ExponentialDecay
    \/ PowerLawDecay
    \/ AdaptiveDecay
    \/ InterferenceProtectedDecay
    \/ GetFieldEnergy

SpecCalls == InitCalls /\ [][NextCalls]_vars

-----------------------------------------------------------------------------
(* A braid attached to a field whose waves fade *)

BraidTexts == {TxtCoffee, TxtGuitar}

\* a short session of several waves whose braids are mined for patterns, and
\* a long one in which a wave fades away
BraidSessions ==
    {[texts |-> BraidTexts, depth |-> DepthBraid, calls |-> MaxBraidCalls, mined |-> TRUE, draws |-> {Calm}],
     [texts |-> {TxtCoffee}, depth |-> DepthFading, calls |-> MaxFadingCalls,
      mined |-> FALSE, draws |-> {Calm}]}

\* TemporalBraid(field), beside a field that is filled, decayed and pruned
InitBraid ==
    /\ dimensions = Dim
    /\ input = NoCall
    /\ outcome = NoCall
    /\ allWaves = << >>
    /\ waves = << >>
    /\ time = 0
    /\ field_tensor = ZeroTensor
    /\ raw_tensor = ZeroTensor
    /\ last_resonances = << >>
    /\ graph = EmptyMap
    /\ braids = << >>
    /\ id_to_braid = EmptyMap
    /\ occurrence_counts = EmptyMap
    /\ hologram = ZeroHologram
    /\ hologram_count = 0
    /\ crystals = << >>
    /\ attached = TRUE
    /\ causal_loops = << >>
    /\ calls = 0
    /\ corpus \in BraidSessions

\* TemporalBraid.detect_patterns(min_repeats, max_pattern_len)
DetectPatterns(min_repeats, max_pattern_len) ==
    /\ input' = [op |-> "detect_patterns", min_repeats |-> min_repeats,
                 max_pattern_len |-> max_pattern_len]
    /\ outcome' = [op |-> "detect_patterns",
                   results |-> detect_patterns(braids, min_repeats, max_pattern_len)]
    /\ UNCHANGED <<allWaves, waves, time, field_tensor, raw_tensor, last_resonances,
                   graph, braids, id_to_braid, occurrence_counts, hologram,
                   hologram_count, crystals, attached, causal_loops, calls, corpus,
                   dimensions>>

\* TemporalBraid.detect_causal_loops(max_loop_len, min_occurrences)
DetectCausalLoops(max_loop_len, min_occurrences) ==
    /\ input' = [op |-> "detect_causal_loops", max_loop_len |-> max_loop_len,
                 min_occurrences |-> min_occurrences]
    /\ \E loops \in {detect_causal_loops(braids, max_loop_len, min_occurrences)} :
           /\ causal_loops' = loops
           /\ outcome' = [op |-> "detect_causal_loops", loops |-> loops]
    /\ UNCHANGED <<allWaves, waves, time, field_tensor, raw_tensor, last_resonances,
                   graph, braids, id_to_braid, occurrence_counts, hologram,
                   hologram_count, crystals, attached, calls, corpus, dimensions>>

NextBraid ==
    \/ \E text \in BraidTexts : FieldAdd(text)
    \/ \E wid \in 1..DepthBraid : Weave(wid)
    \/ ApplyTemporalDecay
    \/ \E min_repeats \in {1, 2}, max_pattern_len \in {2, 3} :
           corpus.mined /\ DetectPatterns(min_repeats, max_pattern_len)
    \/ \E min_occurrences \in {1, 2} :
           corpus.mined /\ DetectCausalLoops(3, min_occurrences)

SpecBraid == InitBraid /\ [][NextBraid]_vars

-----------------------------------------------------------------------------
(* An entanglement graph, built and then walked *)

GraphTexts == {TxtCoffee}

InitGraph ==
    /\ dimensions = Dim
    /\ input = NoCall
    /\ outcome = NoCall
    /\ allWaves = << >>
    /\ waves = << >>
    /\ time = 0
    /\ field_tensor = ZeroTensor
    /\ raw_tensor = ZeroTensor
    /\ last_resonances = << >>
    /\ graph = EmptyMap
    /\ braids = << >>
    /\ id_to_braid = EmptyMap
    /\ occurrence_counts = EmptyMap
    /\ hologram = ZeroHologram
    /\ hologram_count = 0
    /\ crystals = << >>
    /\ attached = TRUE
    /\ causal_loops = << >>
    /\ calls = 0
    /\ corpus = [texts |-> GraphTexts, depth |-> DepthGraph, calls |-> MaxGraphCalls, draws |-> {Calm}]

\* QuantumEntanglement.neighborhood(wave, depth)
Neighborhood(wid, depth) ==
    /\ wid \in DOMAIN allWaves
    /\ input' = [op |-> "neighborhood", wave |-> wid, depth |-> depth]
    /\ outcome' = [op |-> "neighborhood", result |-> neighborhood(graph, wid, depth)]
    /\ UNCHANGED <<allWaves, waves, time, field_tensor, raw_tensor, last_resonances,
                   graph, braids, id_to_braid, occurrence_counts, hologram,
                   hologram_count, crystals, attached, causal_loops, calls, corpus,
                   dimensions>>

NextGraph ==
    \/ \E text \in GraphTexts : FieldAdd(text)
    \/ \E w1, w2 \in 1..DepthGraph : EntangleWaves(w1, w2)
    \/ \E wid \in 1..DepthGraph, depth \in 0..MaxHops : Neighborhood(wid, depth)

SpecGraph == InitGraph /\ [][NextGraph]_vars

-----------------------------------------------------------------------------
(* A field of keyword-sharing waves, scanned by the crystallizer *)

CrystalTexts == {TxtCoffee, TxtGuitar, TxtChords}

InitCrystal ==
    /\ dimensions = Dim
    /\ input = NoCall
    /\ outcome = NoCall
    /\ allWaves = << >>
    /\ waves = << >>
    /\ time = 0
    /\ field_tensor = ZeroTensor
    /\ raw_tensor = ZeroTensor
    /\ last_resonances = << >>
    /\ graph = EmptyMap
    /\ braids = << >>
    /\ id_to_braid = EmptyMap
    /\ occurrence_counts = EmptyMap
    /\ hologram = ZeroHologram
    /\ hologram_count = 0
    /\ crystals = << >>
    /\ attached = TRUE
    /\ causal_loops = << >>
    /\ calls = 0
    /\ corpus = [texts |-> CrystalTexts, depth |-> DepthCrystal, calls |-> MaxCrystalCalls, draws |-> {Calm}]

NextCrystal ==
    \/ \E text \in CrystalTexts : FieldAdd(text)
    \/ ApplyTemporalDecay
    \/ CheckCrystallization

SpecCrystal == InitCrystal /\ [][NextCrystal]_vars

-----------------------------------------------------------------------------
(* Properties *)

Ids == DOMAIN allWaves
Live == IdsOf(waves)

\* C1: entanglement membership recorded on the waves is symmetric: for all
\* waves a and b ever created, a is in b.entangled_with iff b is in
\* a.entangled_with, whatever add_experience, entangle_waves, decay,
\* consolidation and pruning did.
C1_EntanglementSymmetric ==
    \A a, b \in Ids :
        (a \in allWaves[b].entangled_with) <=> (b \in allWaves[a].entangled_with)

\* two waves entangled by the interference alone, two others by entangle_waves,
\* and a decay step behind them
C1_Witness ==
    /\ \E a, b \in Ids :
           /\ a # b
           /\ a \in allWaves[b].entangled_with
           /\ a \notin get_entangled_ids(graph, b)
    /\ \E c \in Ids : get_entangled_ids(graph, c) # {}
    /\ \E w \in Ids : allWaves[w].amplitude < SCALE

\* C2: after any sequence of EnhancedTSW.add_experience calls the waves'
\* entangled_with sets and QuantumEntanglement.graph hold the same edges.
C2_EdgeSetsEqual ==
    \A a \in Ids : allWaves[a].entangled_with = get_entangled_ids(graph, a)

BraidPositions(wid) ==
    {p \in UNION {{<<b, k>> : k \in 1..Len(braids[b])} : b \in 1..Len(braids)} :
        braids[p[1]][p[2]] = wid}

Woven == {wid \in Ids : CountOf(occurrence_counts, wid) > 0}

BraidPartialFunction ==
    /\ DOMAIN id_to_braid = Woven
    /\ \A wid \in Woven :
           /\ Cardinality(BraidPositions(wid)) = 1
           /\ \A p \in BraidPositions(wid) : p[1] = id_to_braid[wid] + 1

BraidIndexKept ==
    \A wid \in DOMAIN id_to_braid :
        wid \in DOMAIN id_to_braid' /\ id_to_braid'[wid] = id_to_braid[wid]

\* C3: every woven wave id occurs in exactly one braid, exactly once,
\* _id_to_braid[id] is the index of that braid, and that index never changes,
\* also when a wave is woven more than once.
C3_BraidOnce == []BraidPartialFunction /\ [][BraidIndexKept]_vars

\* a wave woven twice that sits in a braid of two waves
C3_Witness ==
    \E wid \in Ids :
        /\ CountOf(occurrence_counts, wid) >= 2
        /\ \E b \in 1..Len(braids) : Len(braids[b]) >= 2 /\ wid \in IdsOf(braids[b])

\* C4: after 'coffee with Sarah' and then 'Sarah plays guitar' are ingested,
\* both waves are in the same braid.
C4_SarahSameBraid ==
    (/\ Len(allWaves) = 2
     /\ allWaves[1].source_text = TxtCoffee
     /\ allWaves[2].source_text = TxtGuitar)
    => id_to_braid[1] = id_to_braid[2]

\* C5: every wave of the live list has amplitude <= max_amplitude (2.0).
C5_AmplitudeBelowCeiling ==
    \A id \in Live : allWaves[id].amplitude <= max_amplitude

\* C6: no wave's amplitude is ever negative.
C6_AmplitudeNonNegative ==
    \A id \in Ids : allWaves[id].amplitude >= 0

TensorLimit == FIELD_NORM_LIMIT * TSCALE

\* the real and imaginary parts of the entries of a tensor
Parts == TensorIndex \X {"re", "im"}
Part(T, x) == IF x[2] = "re" THEN T[x[1]].re ELSE T[x[1]].im

C8_LiveAboveMinimum ==
    \A id \in Live : allWaves[id].amplitude > MIN_VIABLE_AMPLITUDE

\* a wave that decayed to 0.01 or less and was removed, others still live
C8_Witness ==
    /\ \E id \in Ids \ Live :
           /\ allWaves[id].amplitude >= 0
           /\ allWaves[id].amplitude <= MIN_VIABLE_AMPLITUDE
    /\ Live # {}

\* C9: field time is the number of add_experience calls so far, whatever
\* other operations ran, and the n-th ingested wave has timestamp n - 1.
C9_FieldTimeCounts ==
    /\ time = Len(allWaves)
    /\ \A id \in Ids : allWaves[id].timestamp = id - 1

\* three waves, and operations other than add_experience among the calls
C9_Witness ==
    /\ Len(allWaves) >= 3
    /\ calls > Len(allWaves)
    /\ \E id \in Ids : allWaves[id].amplitude < SCALE /\ id \in DOMAIN id_to_braid

\* C10 as claimed: no wave of the live list comes from the empty text.
C10_EmptyTextNoWave ==
    \A id \in Live : allWaves[id].source_text # TxtEmpty

\* C10 as amended: every add_experience creates a wave, and for the empty
\* text (embedding none) the wave is appended to the live list with the zero
\* vector of the field dimension and no keywords.
C10_EmptyTextZeroWave ==
    [][/\ Len(allWaves') = Len(allWaves) + 1
       /\ allWaves'[Len(allWaves')].source_text = TxtEmpty
          => /\ waves' # << >>
             /\ waves'[Len(waves')] = Len(allWaves')
             /\ allWaves'[Len(allWaves')].vector = ZeroVector(dimensions)
             /\ allWaves'[Len(allWaves')].keywords = {}]_vars

\* a live wave of the empty text next to a live wave of another text
C10_Witness ==
    /\ \E id \in Live : allWaves[id].source_text = TxtEmpty
    /\ \E id \in Live : allWaves[id].source_text = TxtCoffee

\* C11: a dimension mismatch is never rejected: in a field whose dimension
\* differs from the length of the provider's vectors, add_experience and
\* find_resonances complete without error, on vectors padded or truncated to
\* the field dimension.
C11_MismatchNeverRejected ==
    /\ \A id \in Ids : Len(allWaves[id].vector) = dimensions
    /\ outcome.op = "find_resonances" => outcome.error = "none"

\* C16: find_resonances is a pure query: it leaves the wave objects, the live
\* list, the field tensor and the field time as they are, and a second call
\* with the same query and top_k on the unchanged field returns what the
\* first returned.
C16_FindResonancesPure ==
    [][calls' = calls
       => /\ UNCHANGED <<allWaves, waves, field_tensor, time>>
          /\ (input' = input /\ outcome.op = "find_resonances" /\ outcome.at = calls)
             => outcome' = outcome]_vars

\* a query that ranked two waves, one of them entangled, below a wave added
\* later than the one it outranks
C16_Witness ==
    /\ outcome.op = "find_resonances"
    /\ outcome.at = calls
    /\ Len(outcome.results) >= 2
    /\ outcome.results[1].id > outcome.results[2].id
    /\ outcome.results[1].score > outcome.results[2].score
    /\ \E id \in Live : allWaves[id].entangled_with # {}

\* the weighted value of a live wave for the wave being ingested: similarity
\* times the amplitude the live wave has before the call
WeightedBefore(nw, id) == Mul(InterferenceSim(nw, allWaves[id]), allWaves[id].amplitude)

\* C19: add_experience returns min(3, n) resonances for n live waves before
\* the call, each the (text, weighted) pair of a different live wave, in
\* non-increasing order of score, and no live wave left out has a weighted
\* value above a returned one.
C19_TopThreeResonances ==
    [][Len(allWaves') = Len(allWaves) + 1
       => \E r \in {last_resonances'} :
          \E weighted \in {[k \in 1..Len(waves) |->
                              WeightedBefore(allWaves'[Len(allWaves')], waves[k])]} :
              /\ Len(r) = Min(3, Len(waves))
              /\ \A i \in 1..(Len(r) - 1) : r[i].score >= r[i + 1].score
              /\ \A i \in 1..Len(r) :
                     Cardinality({j \in 1..Len(r) : r[j] = r[i]})
                     <= Cardinality({k \in 1..Len(waves) :
                                        /\ weighted[k] = r[i].score
                                        /\ Prefix200(allWaves[waves[k]].source_text) = r[i].text})
              /\ \A k \in 1..Len(waves) :
                     weighted[k] > r[Len(r)].score
                     => Cardinality({j \in 1..Len(r) : r[j].score = weighted[k]})
                        = Cardinality({j \in 1..Len(waves) : weighted[j] = weighted[k]})]_vars

\* three resonances of different scores returned from a field of five or more
\* live waves of different texts
C19_Witness ==
    /\ Len(waves) >= 6
    /\ Len(last_resonances) = 3
    /\ last_resonances[1].score > last_resonances[2].score
    /\ last_resonances[2].score > last_resonances[3].score
    /\ \E i, j \in 1..3 : last_resonances[i].text # last_resonances[j].text

\* C20: when 'Sarah plays guitar' is ingested after 'coffee with Sarah', the
\* resonances returned include the first wave with a weighted score above
\* CONSTRUCTIVE_THRESHOLD, although the first wave has decayed once.
C20_SarahConstructive ==
    (/\ Len(allWaves) = 2
     /\ allWaves[1].source_text = TxtCoffee
     /\ allWaves[2].source_text = TxtGuitar)
    => \E i \in 1..Len(last_resonances) :
           /\ last_resonances[i].text = TxtCoffee
           /\ last_resonances[i].score > CONSTRUCTIVE_THRESHOLD

\* the two texts ingested in this order, the resonance of the first wave
\* weighted by its decayed amplitude (below the keyword bonus of 0.15)
C20_Witness ==
    /\ Len(allWaves) = 2
    /\ allWaves[1].source_text = TxtCoffee
    /\ allWaves[2].source_text = TxtGuitar
    /\ Len(last_resonances) = 1
    /\ last_resonances[1].score < KEYWORD_BONUS
    /\ allWaves[1].keywords \cap allWaves[2].keywords = {"sarah"}

\* C18: the crystal list is append-only: every step leaves the crystals
\* recorded so far unchanged and in place, and check_crystallization appends
\* a crystal for every cluster that qualifies now, also when the same crystal
\* is in the list already.
C18_CrystalsAppendOnly ==
    [][/\ Len(crystals') >= Len(crystals)
       /\ SubSeq(crystals', 1, Len(crystals)) = crystals
       /\ (outcome'.op = "check_crystallization" /\ outcome'.at = calls /\ calls' = calls + 1)
          => /\ UNCHANGED <<allWaves, waves>>
             /\ crystals' = crystals \o outcome'.new_crystals
             /\ Len(outcome'.new_crystals)
                = Cardinality({i \in 1..Len(_keyword_seed_clusters(allWaves, waves)) :
                                  /\ Len(waves) > MIN_CLUSTER_SIZE
                                  /\ Len(_keyword_seed_clusters(allWaves, waves)[i])
                                         >= MIN_CLUSTER_SIZE
                                  /\ Stability(allWaves, _keyword_seed_clusters(allWaves, waves)[i])
                                         >= crystallization_threshold})]_vars

\* two calls of check_crystallization on an unchanged field: the same crystal
\* is in the list twice
C18_Witness ==
    /\ Len(crystals) >= 2
    /\ crystals[1] = crystals[2]
    /\ outcome.op = "check_crystallization"
    /\ outcome.new_crystals # << >>

\* a step of reconstruct: the only step that writes the call and its outcome
ReconstructStep ==
    /\ input'.op = "reconstruct"
    /\ <<input, outcome>>' # <<input, outcome>>

\* C13: reconstruct with a damage mask whose shape is not the hologram's fails
\* with the shape-mismatch error, and no call of reconstruct, failed or not,
\* changes the hologram or the stored count.
C13_ReconstructReadOnly ==
    [][ReconstructStep
       => /\ (~input'.damage_mask.none /\ input'.damage_mask.shape # <<HoloSize, HoloSize>>)
                 => outcome'.error = "ValueError"
          /\ UNCHANGED <<hologram, hologram_count>>]_vars

\* a rejected mask, and a damaging mask read from a hologram that holds a wave
C13_Witness ==
    /\ input.op = "reconstruct"
    /\ hologram_count > 0
    /\ hologram # ZeroHologram
    /\ \/ outcome.error = "ValueError"
       \/ input.damage_mask = DamagedRow /\ outcome.error = "none"

\* C17: reconstruct with a mask of ones of the hologram's shape returns the
\* map that reconstruct without a mask returns.
C17_OnesMaskIsNoMask ==
    [][(ReconstructStep /\ input'.damage_mask = OnesMask(HoloSize, HoloSize))
       => /\ outcome'.error = "none"
          /\ outcome'.recon_mag = reconstruct(hologram, hologram_count, NoMask).recon_mag]_vars

\* the mask of ones read from a hologram whose map is not zero
C17_Witness ==
    /\ input.op = "reconstruct"
    /\ input.damage_mask = OnesMask(HoloSize, HoloSize)
    /\ outcome.error = "none"
    /\ \E ab \in HoloIndex : outcome.recon_mag[ab] > 0

ZeroMagnitude(v) == \A i \in 1..Len(v) : v[i] = C(0, 0)

\* C12: collapse_wavefunction with a measurement vector of zero magnitude
\* fails with the invalid-measurement error (ValueError), and the failed call
\* leaves the superposition passed in and all the state of the field as they
\* were.
C12_ZeroMeasurementRejected ==
    [][(/\ input.op = "collapse_wavefunction"
        /\ outcome = NoCall
        /\ outcome' # NoCall
        /\ ZeroMagnitude(input.measurement_vector))
       => /\ outcome'.error = "ValueError"
          /\ input'.superposition = input.superposition
          /\ UNCHANGED <<allWaves, waves, time, field_tensor, raw_tensor, last_resonances,
                         graph, braids, id_to_braid, occurrence_counts, hologram,
                         hologram_count, crystals, dimensions>>]_vars

\* a zero measurement of a superposition of two components rejected beside a
\* field that holds waves
C12_Witness ==
    /\ input.op = "collapse_wavefunction"
    /\ outcome.op = "collapse_wavefunction"
    /\ outcome.error = "ValueError"
    /\ Len(input.superposition) = 2
    /\ Len(input.measurement_vector) >= 2
    /\ ZeroMagnitude(input.measurement_vector)
    /\ waves # << >>

DecayFunctions ==
    {"exponential_decay", "power_law_decay", "adaptive_decay", "interference_protected_decay"}

\* C14: each of the four decay functions returns a factor in
\* [MIN_DECAY, MAX_DECAY] for every elapsed time, very large and negative
\* ones (time_delta <= -1 for power_law_decay) included, and for every
\* keyword, partner or resonance count.
C14_DecayFactorInRange ==
    outcome.op \in DecayFunctions
        => /\ outcome.error = "none"
           /\ MIN_DECAY <= outcome.value
           /\ outcome.value <= MAX_DECAY

\* C15: get_field_energy returns a finite value no greater than the cap 1e15,
\* however large the amplitudes of the waves, the number of waves or the
\* entries of the tensor are.
C15_EnergyFiniteAndCapped ==
    outcome.op = "get_field_energy"
        => /\ outcome.value.k = "num"
           /\ outcome.value.v <= ENERGY_CAP

\* the energy of two waves, one of an amplitude beyond the clamp and one of an
\* amplitude that is no number, under a tensor whose sum overflowed
C15_Witness ==
    /\ outcome.op = "get_field_energy"
    /\ Len(input.waves) = 2
    /\ input.waves[1].amplitude = Num(2 * AMP_LIMIT)
    /\ input.waves[2].amplitude = NaN
    /\ input.tensor_energy = Inf
    /\ outcome.value = Num(ENERGY_CAP)

\* the wave a weave step weaves
WeaveStepOf(wid) ==
    CountOf(occurrence_counts', wid) = CountOf(occurrence_counts, wid) + 1

\* the tail of braid b
TailOf(b) == braids[b][Len(braids[b])]

\* the braids weave considers for wid: the tail is found in the field and is
\* no more than MAX_BRAID_GAP older than the wave
Considered(wid) ==
    {b \in 1..Len(braids) :
        /\ braids[b] # << >>
        /\ attached
        /\ TailOf(b) \in IdsOf(waves)
        /\ allWaves[wid].timestamp - allWaves[TailOf(b)].timestamp <= MAX_BRAID_GAP}

TailScore(wid, b) == _similarity_score(allWaves[wid], allWaves[TailOf(b)])

\* the first of the considered braids with the highest score
BestBraids(wid) ==
    {b \in Considered(wid) :
        \A c \in Considered(wid) :
            \/ TailScore(wid, c) < TailScore(wid, b)
            \/ TailScore(wid, c) = TailScore(wid, b) /\ c >= b}

Contiguous(n) ==
    UNION {{SubSeq(braids[b], i, j) :
              i \in 1..Len(braids[b]), j \in 1..Len(braids[b])} : b \in 1..Len(braids)}
        \cap {p \in UNION {[1..k -> Ids] : k \in 2..Max(2, n)} : Len(p) <= n}

\* the occurrences of p over all braids and start positions
OccurrencesOf(p) ==
    {bi \in (1..Len(braids)) \X (1..(Len(allWaves) + 1)) :
        /\ bi[2] + Len(p) - 1 <= Len(braids[bi[1]])
        /\ SubSeq(braids[bi[1]], bi[2], bi[2] + Len(p) - 1) = p}

\* a step of detect_patterns or detect_causal_loops
DetectStep(op) ==
    /\ input'.op = op
    /\ <<input, outcome, causal_loops>>' # <<input, outcome, causal_loops>>

\* C23: detect_patterns(min_repeats, max_pattern_len) returns exactly the
\* contiguous subsequences of length 2..max_pattern_len of the braids that
\* occur at least min_repeats times over all braids and start positions, each
\* once and with that count, ordered by count descending and then by length
\* descending, and it leaves the braids as they were.
C23_DetectPatternsExact ==
    [][DetectStep("detect_patterns")
       => LET res == outcome'.results
          IN  /\ UNCHANGED <<braids, id_to_braid, occurrence_counts>>
              /\ {res[i].pattern : i \in 1..Len(res)}
                     = {p \in Contiguous(input'.max_pattern_len) :
                           Cardinality(OccurrencesOf(p)) >= input'.min_repeats}
              /\ \A i \in 1..Len(res) :
                     /\ res[i].count = Cardinality(OccurrencesOf(res[i].pattern))
                     /\ \A j \in 1..Len(res) :
                            i < j => /\ res[i].pattern # res[j].pattern
                                     /\ \/ res[i].count > res[j].count
                                        \/ /\ res[i].count = res[j].count
                                           /\ Len(res[i].pattern) >= Len(res[j].pattern)]_vars

\* the three patterns of a braid of three waves, the longest first
C23_Witness ==
    /\ outcome.op = "detect_patterns"
    /\ Len(outcome.results) = 3
    /\ Len(outcome.results[1].pattern) = 3
    /\ Len(outcome.results[3].pattern) = 2
    /\ \E b \in 1..Len(braids) : Len(braids[b]) = 3

\* no contiguous subsequence of two or more ids occurs twice in the braids
NoRepeatedSubsequence ==
    \A p \in Contiguous(Len(allWaves)) : Cardinality(OccurrencesOf(p)) <= 1

\* C27: in every braid state that weave calls reach, no contiguous
\* subsequence of length >= 2 occurs more than once; so detect_patterns with
\* min_repeats >= 2 returns the empty list, and detect_causal_loops with
\* min_occurrences >= 2 leaves causal_loops empty.
C27_NoRepeatedPatterns ==
    /\ []NoRepeatedSubsequence
    /\ [][/\ (DetectStep("detect_patterns") /\ input'.min_repeats >= 2)
                 => outcome'.results = << >>
          /\ (DetectStep("detect_causal_loops") /\ input'.min_occurrences >= 2)
                 => causal_loops' = << >> /\ outcome'.loops = << >>]_vars

\* detect_causal_loops with min_occurrences 2 called on a braid of three
\* waves: no loop
C27_Witness ==
    /\ input.op = "detect_causal_loops"
    /\ input.min_occurrences = 2
    /\ outcome.loops = << >>
    /\ causal_loops = << >>
    /\ \E b \in 1..Len(braids) : Len(braids[b]) = 3


\* the edges of the graph, as the adjacency sets record them
Edge(a, b) == a \in DOMAIN graph /\ b \in graph[a]

\* the waves that a walk of exactly n edges from a ends in
RECURSIVE WalkEnds(_, _)
WalkEnds(a, n) ==
    IF n = 0 THEN {a}
    ELSE {b \in DOMAIN allWaves : \E c \in WalkEnds(a, n - 1) : Edge(c, b)}

\* b is at graph distance between 1 and depth from a
Within(a, b, depth) == b # a /\ \E n \in 1..depth : b \in WalkEnds(a, n)

\* entangle_waves keeps the graph symmetric and without self edges
GraphSymmetric ==
    \A a \in DOMAIN graph : \A b \in graph[a] : b # a /\ Edge(b, a)

\* C25: the graph built by entangle_waves is symmetric and has no self edge,
\* and neighborhood(wave, depth) returns exactly the ids at graph distance
\* between 1 and depth from the wave, never the wave's own id, the empty set
\* for depth 0 or for a wave with no edges, and leaves the graph unchanged
C25_NeighborhoodIsBall ==
    /\ []GraphSymmetric
    /\ [][DetectStep("neighborhood") =>
            /\ outcome'.result =
                   {b \in DOMAIN allWaves : Within(input'.wave, b, input'.depth)}
            /\ input'.wave \notin outcome'.result
            /\ (input'.depth = 0 => outcome'.result = {})
            /\ (get_entangled_ids(graph, input'.wave) = {} => outcome'.result = {})
            /\ graph' = graph
            /\ allWaves' = allWaves]_vars

\* neighborhood of depth 2 on the path 1 - 2 - 3 with wave 4 apart: from
\* wave 1 it returns {2, 3}
C25_Witness ==
    /\ Len(allWaves) = 4
    /\ graph = (1 :> {2} @@ 2 :> {1, 3} @@ 3 :> {2})
    /\ input.op = "neighborhood"
    /\ input.wave = 1
    /\ input.depth = 2
    /\ outcome.op = "neighborhood"
    /\ outcome.result = {2, 3}

\* the live waves at positions i and j share at least one keyword
ShareKeyword(i, j) ==
    allWaves[waves[i]].keywords \cap allWaves[waves[j]].keywords # {}

\* the live wave at position j joins the cluster seeded at position i: i is
\* a seed (no earlier seed took it), j is later, shares a keyword with the
\* seed and was taken by no earlier seed
RECURSIVE Takes(_, _)
Takes(i, j) ==
    /\ i < j
    /\ \A k \in 1..(i - 1) : ~Takes(k, i)
    /\ ShareKeyword(i, j)
    /\ \A k \in 1..(i - 1) : ~Takes(k, j)

\* the cluster seeded at position i, as wave ids in live order
SeededCluster(i) ==
    <<waves[i]>> \o
    SelectSeq(SubSeq(waves, i + 1, Len(waves)),
              LAMBDA id : \E j \in (i + 1)..Len(waves) : waves[j] = id /\ Takes(i, j))

\* the positions that seed a candidate cluster
CandidateSeeds ==
    {i \in 1..Len(waves) : /\ \A k \in 1..(i - 1) : ~Takes(k, i)
                           /\ \E j \in (i + 1)..Len(waves) : Takes(i, j)}

\* a step of check_crystallization
CrystallizationStep ==
    outcome'.op = "check_crystallization" /\ outcome'.at = calls /\ calls' = calls + 1

\* C24: check_crystallization records nothing when the field has 2 or fewer
\* live waves; otherwise its candidate clusters are pairwise disjoint, have at
\* least 2 members each and are the seed waves with every later not-yet-used
\* wave that shares a keyword with the seed, a crystal is recorded for a
\* candidate exactly when its stability is at least the threshold, and no
\* wave is a member of two crystals recorded by the same call
C24_DisjointSeedClusters ==
    [][CrystallizationStep =>
        LET candidates == _keyword_seed_clusters(allWaves, waves)
            new == outcome'.new_crystals
        IN  /\ crystals' = crystals \o new
            /\ (Len(waves) <= 2 => new = << >>)
            /\ (Len(waves) > 2 =>
                  /\ {candidates[k] : k \in 1..Len(candidates)}
                         = {SeededCluster(i) : i \in CandidateSeeds}
                  /\ Len(candidates) = Cardinality(CandidateSeeds)
                  /\ \A k \in 1..Len(candidates) : Len(candidates[k]) >= 2
                  /\ \A k, l \in 1..Len(candidates) :
                         k # l => IdsOf(candidates[k]) \cap IdsOf(candidates[l]) = {}
                  /\ \A k \in 1..Len(candidates) :
                         (\E n \in 1..Len(new) : new[n].members = candidates[k])
                         <=> Stability(allWaves, candidates[k]) >= crystallization_threshold
                  /\ \A n \in 1..Len(new) :
                         \E k \in 1..Len(candidates) : new[n].members = candidates[k]
                  /\ \A n, o \in 1..Len(new) :
                         n # o => IdsOf(new[n].members) \cap IdsOf(new[o].members) = {})]_vars

\* four live waves, coffee and chords twice each: the call records the two
\* disjoint crystals <<1, 3>> and <<2, 4>>
C24_Witness ==
    /\ Len(waves) = 4
    /\ outcome.op = "check_crystallization"
    /\ outcome.at = calls - 1
    /\ Len(outcome.new_crystals) = 2
    /\ outcome.new_crystals[1].members = <<1, 3>>
    /\ outcome.new_crystals[2].members = <<2, 4>>

\* the entries of the resonances returned to add_experience that are strong
StrongEntries(r) == {i \in 1..Len(r) : r[i].score > STRONG_RESONANCE}

\* C29: every edge that add_experience adds to the graph joins the new wave
\* to a wave that was live before the call and whose own weighted resonance
\* with the new wave exceeded 0.5; the lookup by source-text prefix selects
\* the resonating wave of each strong entry, so the new wave gets one partner
\* for each of them, and it never selects the new wave itself
C29_EdgesJoinResonatingWaves ==
    [][Len(allWaves') = Len(allWaves) + 1 =>
        \E nw \in {Len(allWaves')} :
        \E partners \in {get_entangled_ids(graph', nw)} :
            /\ \A a \in DOMAIN graph' \ {nw} :
                   graph'[a] \ {nw} = get_entangled_ids(graph, a)
            /\ nw \notin partners
            /\ \A o \in partners :
                   /\ o \in IdsOf(waves)
                   /\ WeightedBefore(allWaves'[nw], o) > STRONG_RESONANCE
            /\ Cardinality(partners) = Cardinality(StrongEntries(last_resonances'))]_vars

\* C21: for every question, whether or not a wave resonates, query returns a
\* record with an 'insight' entry and a 'confidence' entry
C21_InsightAndConfidence ==
    outcome.op = "query" =>
        /\ outcome.error = "none"
        /\ {"insight", "confidence"} \subseteq DOMAIN outcome.returned

\* C28: query never fails with the invalid-measurement error: whenever
\* find_resonances returns at least one wave, the measurement vector passed
\* to collapse_wavefunction, the query vector cut to the superposition's
\* length, has a non-zero magnitude
C28_MeasurementNeverZero ==
    outcome.op = "query" =>
        /\ outcome.raised_by # "collapse_wavefunction"
        /\ (outcome.resonances # << >> => CNorm(outcome.measurement) # 0)

\* a wave without its quantum state
Classical(w) == [w EXCEPT !.quantum_state = << >>]

\* what two runs are compared in: the waves' amplitudes and every other
\* field but the quantum state, the live list, the entanglement graph, the
\* braids and the crystals
Observables(aw, live, g, bs, cs) ==
    <<[id \in DOMAIN aw |-> Classical(aw[id])], live, g, bs, cs>>

\* the waves with the quantum states they were created with
Recreated(aw) ==
    [id \in DOMAIN aw |-> [aw[id] EXCEPT !.quantum_state = _create_quantum_state(aw[id].vector)]]

\* C26: apart from the wave ids and the noise in quantum_state the system is
\* deterministic: what an ingestion leaves behind in the amplitudes, the
\* entanglement, the braids and the crystals is what it leaves behind from
\* the same waves with noise-free quantum states under every draw of the
\* rng, and the ranking and the scores a question finds are those it finds
\* on the noise-free waves, so two runs of the same texts and questions
\* agree on all of them step by step
C26_NoiseNeverObserved ==
    [][/\ Len(allWaves') = Len(allWaves) + 1 =>
            \A draw \in Draws :
                \E r \in {add_experience_on(Recreated(allWaves),
                                            allWaves'[Len(allWaves')].source_text, draw)} :
                    Observables(allWaves', waves', graph', braids', crystals')
                        = Observables(r.allWaves, r.waves, r.graph, r.braids, r.crystals)
       /\ (input'.op = "query" /\ <<input, outcome>>' # <<input, outcome>>) =>
            /\ outcome'.resonances
                   = find_resonances(Recreated(allWaves), waves, input'.question,
                                     QUERY_TOP_K).results
            /\ Observables(allWaves', waves', graph', braids', crystals')
                   = Observables(allWaves, waves, graph, braids, crystals)]_vars

\* after three ingestions of the same text the first wave's quantum state
\* has moved away from the one it was created with, and a question ranks the
\* three waves
C26_Witness ==
    /\ Len(allWaves) = 3
    /\ allWaves[1].quantum_state # _create_quantum_state(allWaves[1].vector)
    /\ allWaves[1].amplitude # allWaves[3].amplitude
    /\ graph # EmptyMap
    /\ outcome.op = "query"
    /\ Len(outcome.resonances) = 3

=============================================================================
